---------------------------- MODULE Spec2Model ----------------------------
(***************************************************************************)
(* Smart Todo: the AI gateway (ai_module/ai_client.py), the task analyzer  *)
(* (ai_module/task_analyzer.py) and the context processor                  *)
(* (ai_module/context_processor.py), and the reanalyze action of the task  *)
(* view set (tasks/views.py).                                              *)
(*                                                                         *)
(* Text is a sequence of one-character strings, so that substring tests,   *)
(* lower-casing, stripping, regular-expression scans and JSON parsing are  *)
(* computed character by character as the Python code computes them.       *)
(***************************************************************************)
EXTENDS Integers, Sequences, FiniteSets, TLC

VARIABLES
    openai_key,   \* AIClient.openai_key: TRUE when OPENAI_API_KEY is set
    now,          \* the date datetime.now() reports, <<year, month, day>>
    pc,           \* "idle" | "lm_studio" | "openai" | "done"
    op,           \* the public operation being executed, with its arguments
    prompt,       \* the prompt handed to analyze_with_ai
    attempts,     \* providers called so far by this analyze_with_ai call
    inflight,     \* the external request the program is blocked on
    result,       \* what analyze_with_ai gave its caller
    ret,          \* what the public operation returned
    hash_seed,    \* the string hash seed of the Python process
    prev,         \* the call before this one, when both are process_context_entry
    frame,        \* the activation of get_comprehensive_task_analysis, if any
    db            \* the database tables: tasks, context entries, links

vars == <<openai_key, now, pc, op, prompt, attempts, inflight, result, ret,
          hash_seed, prev, frame, db>>

---------------------------------------------------------------------------
(* Python str operations                                                   *)

UpperChars == <<"A","B","C","D","E","F","G","H","I","J","K","L","M","N","O","P","Q","R","S","T","U","V","W","X","Y","Z">>
LowerChars == <<"a","b","c","d","e","f","g","h","i","j","k","l","m","n","o","p","q","r","s","t","u","v","w","x","y","z">>
Digits == <<"0","1","2","3","4","5","6","7","8","9">>

LowerChar(c) ==
    IF \E i \in 1..26 : UpperChars[i] = c
    THEN LowerChars[CHOOSE i \in 1..26 : UpperChars[i] = c]
    ELSE c

\* str.lower()
Lower(s) == IF s = << >> THEN << >> ELSE [i \in 1..Len(s) |-> LowerChar(s[i])]

\* needle in s
Contains(s, needle) ==
    \E i \in 1..(Len(s) - Len(needle) + 1) :
        \A j \in 1..Len(needle) : s[i + j - 1] = needle[j]

\* any(word in text for word in words)
ContainsAny(text, words) == \E k \in 1..Len(words) : Contains(text, words[k])

IsSpace(c) == c \in {" ", "\t", "\n", "\r"}

RECURSIVE LStrip(_)
LStrip(s) == IF s # << >> /\ IsSpace(Head(s)) THEN LStrip(Tail(s)) ELSE s

RECURSIVE RStrip(_)
RStrip(s) ==
    IF s # << >> /\ IsSpace(s[Len(s)]) THEN RStrip(SubSeq(s, 1, Len(s) - 1)) ELSE s

\* str.strip()
Strip(s) == RStrip(LStrip(s))

\* s[:n]
Prefix(s, n) == SubSeq(s, 1, IF Len(s) < n THEN Len(s) ELSE n)

IsDigit(c) == \E i \in 1..10 : Digits[i] = c

DigitVal(c) == (CHOOSE i \in 1..10 : Digits[i] = c) - 1

\* int(s) for a string of decimal digits
RECURSIVE StrToInt(_)
StrToInt(s) ==
    IF s = << >> THEN 0
    ELSE 10 * StrToInt(SubSeq(s, 1, Len(s) - 1)) + DigitVal(s[Len(s)])

\* str(n) for n >= 0
RECURSIVE IntToStr(_)
IntToStr(n) ==
    IF n < 10 THEN <<Digits[n + 1]>>
    ELSE IntToStr(n \div 10) \o <<Digits[(n % 10) + 1]>>

\* zero-padding to a width, as strftime pads %Y, %m and %d
RECURSIVE ZeroPad(_, _)
ZeroPad(s, width) == IF Len(s) >= width THEN s ELSE ZeroPad(<<"0">> \o s, width)

RECURSIVE Pow10(_)
Pow10(k) == IF k = 0 THEN 1 ELSE 10 * Pow10(k - 1)

---------------------------------------------------------------------------
(* datetime                                                                *)

IsLeap(y) == (y % 4 = 0 /\ y % 100 # 0) \/ y % 400 = 0

DaysInMonth(y, m) ==
    IF m = 2 THEN (IF IsLeap(y) THEN 29 ELSE 28)
    ELSE IF m \in {4, 6, 9, 11} THEN 30 ELSE 31

NextDay(d) ==
    IF d[3] < DaysInMonth(d[1], d[2]) THEN <<d[1], d[2], d[3] + 1>>
    ELSE IF d[2] < 12 THEN <<d[1], d[2] + 1, 1>>
    ELSE <<d[1] + 1, 1, 1>>

\* d + timedelta(days=n)
RECURSIVE AddDays(_, _)
AddDays(d, n) == IF n = 0 THEN d ELSE AddDays(NextDay(d), n - 1)

\* d.strftime("%Y-%m-%d")
StrftimeYmd(d) ==
    ZeroPad(IntToStr(d[1]), 4) \o <<"-">> \o ZeroPad(IntToStr(d[2]), 2)
        \o <<"-">> \o ZeroPad(IntToStr(d[3]), 2)

---------------------------------------------------------------------------
(* ai_module/ai_client.py                                                  *)

\* ai_client.py:67, the string returned when no fallback rule matches
SENTINEL == <<"A","n","a","l","y","s","i","s"," ","u","n","a","v","a","i","l","a","b","l","e"," ","-"," ","u","s","i","n","g"," ","d","e","f","a","u","l","t","s">>

\* ai_client.py:75, the text analyze_with_ai looks for in the primary result
UNAVAILABLE_MARK == <<"A","n","a","l","y","s","i","s"," ","u","n","a","v","a","i","l","a","b","l","e">>

\* timeout=30 of requests.post
LM_STUDIO_TIMEOUT == 30

Returned(text) == [raised |-> FALSE, text |-> text]
Raised == [raised |-> TRUE, text |-> << >>]

\* _fallback_analysis with the deadline rule tested before the priority rule
_fallback_analysis_deadline_first(p) ==
    LET lowered == Lower(p)
    IN  IF Contains(lowered, <<"d","e","a","d","l","i","n","e">>) THEN StrftimeYmd(AddDays(now, 3))
        ELSE IF Contains(lowered, <<"p","r","i","o","r","i","t","y">>) THEN <<"0",".","7">>
        ELSE IF Contains(lowered, <<"c","a","t","e","g","o","r","y">>) THEN <<"G","e","n","e","r","a","l">>
        ELSE IF Contains(lowered, <<"t","a","g","s">>) THEN <<"t","a","s","k",","," ","g","e","n","e","r","a","l">>
        ELSE SENTINEL

\* AIClient._fallback_analysis
_fallback_analysis(p) ==
    LET lowered == Lower(p)
    IN  IF Contains(lowered, <<"p","r","i","o","r","i","t","y">>) THEN <<"0",".","7">>
        ELSE IF Contains(lowered, <<"d","e","a","d","l","i","n","e">>) THEN StrftimeYmd(AddDays(now, 3))
        ELSE IF Contains(lowered, <<"c","a","t","e","g","o","r","y">>) THEN <<"G","e","n","e","r","a","l">>
        ELSE IF Contains(lowered, <<"t","a","g","s">>) THEN <<"t","a","s","k",","," ","g","e","n","e","r","a","l">>
        ELSE SENTINEL

\* The try block of call_lm_studio, lines 17-30, for one outcome of the request:
\* requests.post raises (connection error, timeout), or answers with a status
\* and a body. response.json().get('choices', [{}])[0].get('text', '').strip()
\* raises on a body that is not JSON, on an empty choices list and on a text
\* that is null; a missing 'choices' or 'text' key gives ''.
lm_studio_try(p, resp) ==
    IF resp.kind = "exception" THEN Raised
    ELSE IF resp.status = 200 THEN
        CASE resp.body = "text" -> Returned(Strip(resp.text))
          [] resp.body \in {"no_choices", "no_text"} -> Returned(<< >>)
          [] OTHER -> Raised
    ELSE Returned(_fallback_analysis(p))

\* whether call_lm_studio ends in the local fallback of line 30 or line 33
lm_studio_failed(p, resp) ==
    resp.kind = "exception" \/ resp.status # 200 \/ lm_studio_try(p, resp).raised

\* call_lm_studio without its except clause
call_lm_studio_no_except(p, resp) == lm_studio_try(p, resp)

\* AIClient.call_lm_studio: the try block, and the except clause of lines 31-33
call_lm_studio(p, resp) ==
    LET tried == lm_studio_try(p, resp)
    IN  IF tried.raised THEN Returned(_fallback_analysis(p)) ELSE tried

\* The try block of call_openai, lines 40-50: the import, the request or
\* response.choices[0].message.content.strip() raises, or the content is text.
openai_try(resp) ==
    IF resp.kind = "text" THEN Returned(Strip(resp.text)) ELSE Raised

\* the condition of analyze_with_ai, line 75
wants_openai(r) == Contains(r.text, UNAVAILABLE_MARK) /\ openai_key

LmStudioRequest == [provider |-> "lm_studio", has_timeout |-> TRUE, timeout |-> LM_STUDIO_TIMEOUT]
\* openai.ChatCompletion.create is called without a timeout argument, lines 44-49
OpenAIRequest == [provider |-> "openai", has_timeout |-> FALSE, timeout |-> 0]
NoRequest == [provider |-> "none", has_timeout |-> FALSE, timeout |-> 0]

---------------------------------------------------------------------------
(* ai_module/task_analyzer.py                                              *)

\* task_analyzer.py:26-40, literal part 1 of the f-string
\*   "\n        Analyze the priority of this task on a scale of 0.0 to 1.0 (where 1.0 is highest priority):\n        \n        Task: "
PRIORITY_PROMPT1 ==
    <<"\n"," "," "," "," "," "," "," "," ","A","n","a","l","y","z","e"," ","t","h","e"," ","p","r","i",
    "o","r","i","t","y"," ","o","f"," ","t","h","i","s"," ","t","a","s","k"," ","o","n"," ","a"," ",
    "s","c","a","l","e"," ","o","f"," ","0",".","0"," ","t","o"," ","1",".","0"," ","(","w","h","e",
    "r","e"," ","1",".","0"," ","i","s"," ","h","i","g","h","e","s","t"," ","p","r","i","o","r","i",
    "t","y",")",":","\n"," "," "," "," "," "," "," "," ","\n"," "," "," "," "," "," "," "," ","T","a",
    "s","k",":"," ">>

\* task_analyzer.py:26-40, literal part 2 of the f-string
\*   "\n        Description: "
PRIORITY_PROMPT2 ==
    <<"\n"," "," "," "," "," "," "," "," ","D","e","s","c","r","i","p","t","i","o","n",":"," ">>

\* task_analyzer.py:26-40, literal part 3 of the f-string
\*   "\n        "
PRIORITY_PROMPT3 ==
    <<"\n"," "," "," "," "," "," "," "," ">>

\* task_analyzer.py:26-40, literal part 4 of the f-string
\*   "\n        \n        Consider:\n        1. Urgency and deadlines\n        2. Impact and importance\n        3. Dependencies and context\n        4. Keywords indicating priority\n        \n        Respond with only a decimal number between 0.0 and 1.0\n        "
PRIORITY_PROMPT4 ==
    <<"\n"," "," "," "," "," "," "," "," ","\n"," "," "," "," "," "," "," "," ","C","o","n","s","i","d",
    "e","r",":","\n"," "," "," "," "," "," "," "," ","1","."," ","U","r","g","e","n","c","y"," ","a",
    "n","d"," ","d","e","a","d","l","i","n","e","s","\n"," "," "," "," "," "," "," "," ","2","."," ",
    "I","m","p","a","c","t"," ","a","n","d"," ","i","m","p","o","r","t","a","n","c","e","\n"," "," ",
    " "," "," "," "," "," ","3","."," ","D","e","p","e","n","d","e","n","c","i","e","s"," ","a","n",
    "d"," ","c","o","n","t","e","x","t","\n"," "," "," "," "," "," "," "," ","4","."," ","K","e","y",
    "w","o","r","d","s"," ","i","n","d","i","c","a","t","i","n","g"," ","p","r","i","o","r","i","t",
    "y","\n"," "," "," "," "," "," "," "," ","\n"," "," "," "," "," "," "," "," ","R","e","s","p","o",
    "n","d"," ","w","i","t","h"," ","o","n","l","y"," ","a"," ","d","e","c","i","m","a","l"," ","n",
    "u","m","b","e","r"," ","b","e","t","w","e","e","n"," ","0",".","0"," ","a","n","d"," ","1",".",
    "0","\n"," "," "," "," "," "," "," "," ">>

\* task_analyzer.py:57-66, literal part 1 of the f-string
\*   "\n        Suggest a realistic deadline for this task. Consider the complexity and current workload.\n        \n        Task: "
DEADLINE_PROMPT1 ==
    <<"\n"," "," "," "," "," "," "," "," ","S","u","g","g","e","s","t"," ","a"," ","r","e","a","l","i",
    "s","t","i","c"," ","d","e","a","d","l","i","n","e"," ","f","o","r"," ","t","h","i","s"," ","t",
    "a","s","k","."," ","C","o","n","s","i","d","e","r"," ","t","h","e"," ","c","o","m","p","l","e",
    "x","i","t","y"," ","a","n","d"," ","c","u","r","r","e","n","t"," ","w","o","r","k","l","o","a",
    "d",".","\n"," "," "," "," "," "," "," "," ","\n"," "," "," "," "," "," "," "," ","T","a","s","k",
    ":"," ">>

\* task_analyzer.py:57-66, literal part 2 of the f-string
\*   "\n        Description: "
DEADLINE_PROMPT2 ==
    <<"\n"," "," "," "," "," "," "," "," ","D","e","s","c","r","i","p","t","i","o","n",":"," ">>

\* task_analyzer.py:57-66, literal part 3 of the f-string
\*   "\n        Current workload (1-10): "
DEADLINE_PROMPT3 ==
    <<"\n"," "," "," "," "," "," "," "," ","C","u","r","r","e","n","t"," ","w","o","r","k","l","o","a","d"," ","(","1","-","1","0",")",":"," ">>

\* task_analyzer.py:57-66, literal part 4 of the f-string
\*   "\n        \n        Based on the task complexity, suggest how many days from now this should be completed.\n        Respond with only a number (days from now).\n        "
DEADLINE_PROMPT4 ==
    <<"\n"," "," "," "," "," "," "," "," ","\n"," "," "," "," "," "," "," "," ","B","a","s","e","d"," ",
    "o","n"," ","t","h","e"," ","t","a","s","k"," ","c","o","m","p","l","e","x","i","t","y",","," ",
    "s","u","g","g","e","s","t"," ","h","o","w"," ","m","a","n","y"," ","d","a","y","s"," ","f","r",
    "o","m"," ","n","o","w"," ","t","h","i","s"," ","s","h","o","u","l","d"," ","b","e"," ","c","o",
    "m","p","l","e","t","e","d",".","\n"," "," "," "," "," "," "," "," ","R","e","s","p","o","n","d",
    " ","w","i","t","h"," ","o","n","l","y"," ","a"," ","n","u","m","b","e","r"," ","(","d","a","y",
    "s"," ","f","r","o","m"," ","n","o","w",")",".","\n"," "," "," "," "," "," "," "," ">>

\* task_analyzer.py:132-145, literal part 1 of the f-string
\*   "\n        Enhance this task description with relevant details and context:\n        \n        Original Task: "
ENHANCE_PROMPT1 ==
    <<"\n"," "," "," "," "," "," "," "," ","E","n","h","a","n","c","e"," ","t","h","i","s"," ","t","a",
    "s","k"," ","d","e","s","c","r","i","p","t","i","o","n"," ","w","i","t","h"," ","r","e","l","e",
    "v","a","n","t"," ","d","e","t","a","i","l","s"," ","a","n","d"," ","c","o","n","t","e","x","t",
    ":","\n"," "," "," "," "," "," "," "," ","\n"," "," "," "," "," "," "," "," ","O","r","i","g","i",
    "n","a","l"," ","T","a","s","k",":"," ">>

\* task_analyzer.py:132-145, literal part 2 of the f-string
\*   "\n        Current Description: "
ENHANCE_PROMPT2 ==
    <<"\n"," "," "," "," "," "," "," "," ","C","u","r","r","e","n","t"," ","D","e","s","c","r","i","p","t","i","o","n",":"," ">>

\* task_analyzer.py:132-145, literal part 3 of the f-string
\*   "\n        "
ENHANCE_PROMPT3 ==
    <<"\n"," "," "," "," "," "," "," "," ">>

\* task_analyzer.py:132-145, literal part 4 of the f-string
\*   "\n        \n        Provide an enhanced description that includes:\n        1. Clear objectives\n        2. Relevant context\n        3. Potential steps or considerations\n        \n        Keep it concise but informative (max 200 words).\n        "
ENHANCE_PROMPT4 ==
    <<"\n"," "," "," "," "," "," "," "," ","\n"," "," "," "," "," "," "," "," ","P","r","o","v","i","d",
    "e"," ","a","n"," ","e","n","h","a","n","c","e","d"," ","d","e","s","c","r","i","p","t","i","o",
    "n"," ","t","h","a","t"," ","i","n","c","l","u","d","e","s",":","\n"," "," "," "," "," "," "," ",
    " ","1","."," ","C","l","e","a","r"," ","o","b","j","e","c","t","i","v","e","s","\n"," "," "," ",
    " "," "," "," "," ","2","."," ","R","e","l","e","v","a","n","t"," ","c","o","n","t","e","x","t",
    "\n"," "," "," "," "," "," "," "," ","3","."," ","P","o","t","e","n","t","i","a","l"," ","s","t",
    "e","p","s"," ","o","r"," ","c","o","n","s","i","d","e","r","a","t","i","o","n","s","\n"," "," ",
    " "," "," "," "," "," ","\n"," "," "," "," "," "," "," "," ","K","e","e","p"," ","i","t"," ","c",
    "o","n","c","i","s","e"," ","b","u","t"," ","i","n","f","o","r","m","a","t","i","v","e"," ","(",
    "m","a","x"," ","2","0","0"," ","w","o","r","d","s",")",".","\n"," "," "," "," "," "," "," "," ">>

\* context_processor.py:99-112, literal part 1 of the f-string
\*   "\n            Analyze this "
CONTEXT_PROMPT1 ==
    <<"\n"," "," "," "," "," "," "," "," "," "," "," "," ","A","n","a","l","y","z","e"," ","t","h","i","s"," ">>

\* context_processor.py:99-112, literal part 2 of the f-string
\*   " message and extract key insights:\n            \n            Content: \""
CONTEXT_PROMPT2 ==
    <<" ","m","e","s","s","a","g","e"," ","a","n","d"," ","e","x","t","r","a","c","t"," ","k","e","y",
    " ","i","n","s","i","g","h","t","s",":","\n"," "," "," "," "," "," "," "," "," "," "," "," ","\n",
    " "," "," "," "," "," "," "," "," "," "," "," ","C","o","n","t","e","n","t",":"," ","\"">>

\* context_processor.py:99-112, literal part 3 of the f-string
\*   "\"\n            \n            Please identify:\n            1. Main topic or subject\n            2. Any mentioned deadlines or time constraints\n            3. Priority level (1-10)\n            4. Relevant project or category\n            5. Action items mentioned\n            \n            Respond in JSON format with keys: topic, deadlines, priority, category, actions\n            "
CONTEXT_PROMPT3 ==
    <<"\"","\n"," "," "," "," "," "," "," "," "," "," "," "," ","\n"," "," "," "," "," "," "," "," "," ",
    " "," "," ","P","l","e","a","s","e"," ","i","d","e","n","t","i","f","y",":","\n"," "," "," "," ",
    " "," "," "," "," "," "," "," ","1","."," ","M","a","i","n"," ","t","o","p","i","c"," ","o","r",
    " ","s","u","b","j","e","c","t","\n"," "," "," "," "," "," "," "," "," "," "," "," ","2","."," ",
    "A","n","y"," ","m","e","n","t","i","o","n","e","d"," ","d","e","a","d","l","i","n","e","s"," ",
    "o","r"," ","t","i","m","e"," ","c","o","n","s","t","r","a","i","n","t","s","\n"," "," "," "," ",
    " "," "," "," "," "," "," "," ","3","."," ","P","r","i","o","r","i","t","y"," ","l","e","v","e",
    "l"," ","(","1","-","1","0",")","\n"," "," "," "," "," "," "," "," "," "," "," "," ","4","."," ",
    "R","e","l","e","v","a","n","t"," ","p","r","o","j","e","c","t"," ","o","r"," ","c","a","t","e",
    "g","o","r","y","\n"," "," "," "," "," "," "," "," "," "," "," "," ","5","."," ","A","c","t","i",
    "o","n"," ","i","t","e","m","s"," ","m","e","n","t","i","o","n","e","d","\n"," "," "," "," "," ",
    " "," "," "," "," "," "," ","\n"," "," "," "," "," "," "," "," "," "," "," "," ","R","e","s","p",
    "o","n","d"," ","i","n"," ","J","S","O","N"," ","f","o","r","m","a","t"," ","w","i","t","h"," ",
    "k","e","y","s",":"," ","t","o","p","i","c",","," ","d","e","a","d","l","i","n","e","s",","," ",
    "p","r","i","o","r","i","t","y",","," ","c","a","t","e","g","o","r","y",","," ","a","c","t","i",
    "o","n","s","\n"," "," "," "," "," "," "," "," "," "," "," "," ">>

\* a float with a finite decimal expansion, num/den with den a power of ten
RECURSIVE Decimal(_, _)
Decimal(num, den) ==
    IF den > 1 /\ num % 10 = 0 THEN Decimal(num \div 10, den \div 10)
    ELSE [num |-> num, den |-> den]

\* float(m) for a match m of 0\.\d+|1\.0
ParseFloat(m) ==
    LET frac == SubSeq(m, 3, Len(m))
    IN  Decimal(DigitVal(m[1]) * Pow10(Len(frac)) + StrToInt(frac), Pow10(Len(frac)))

\* last index of the run of digits that starts at s[i]
RECURSIVE DigitRunEnd(_, _)
DigitRunEnd(s, i) ==
    IF i < Len(s) /\ IsDigit(s[i + 1]) THEN DigitRunEnd(s, i + 1) ELSE i

\* where a match of 0\.\d+|1\.0 that starts at s[i] ends; 0 when there is none
PriorityMatchEnd(s, i) ==
    IF i + 2 <= Len(s) /\ s[i] = "0" /\ s[i + 1] = "." /\ IsDigit(s[i + 2])
    THEN DigitRunEnd(s, i + 2)
    ELSE IF i + 2 <= Len(s) /\ s[i] = "1" /\ s[i + 1] = "." /\ s[i + 2] = "0"
    THEN i + 2
    ELSE 0

\* re.findall(r'0\.\d+|1\.0', s[i:]), leftmost matches, not overlapping
RECURSIVE FindPriorityNumbers(_, _)
FindPriorityNumbers(s, i) ==
    IF i > Len(s) THEN << >>
    ELSE IF PriorityMatchEnd(s, i) = 0 THEN FindPriorityNumbers(s, i + 1)
    ELSE <<SubSeq(s, i, PriorityMatchEnd(s, i))>>
             \o FindPriorityNumbers(s, PriorityMatchEnd(s, i) + 1)

\* re.findall(r'\d+', s[i:])
RECURSIVE FindIntegers(_, _)
FindIntegers(s, i) ==
    IF i > Len(s) THEN << >>
    ELSE IF ~IsDigit(s[i]) THEN FindIntegers(s, i + 1)
    ELSE <<SubSeq(s, i, DigitRunEnd(s, i))>> \o FindIntegers(s, DigitRunEnd(s, i) + 1)

\* f"{title} {description}".lower()
TaskText(title, description) == Lower(title \o <<" ">> \o description)

\* TaskAnalyzer._calculate_fallback_priority
_calculate_fallback_priority(title, description) ==
    LET text == TaskText(title, description)
    IN  IF ContainsAny(text, <<<<"u","r","g","e","n","t">>, <<"c","r","i","t","i","c","a","l">>, <<"a","s","a","p">>, <<"e","m","e","r","g","e","n","c","y">>>>)
        THEN Decimal(9, 10)
        ELSE IF ContainsAny(text, <<<<"i","m","p","o","r","t","a","n","t">>, <<"p","r","i","o","r","i","t","y">>, <<"d","e","a","d","l","i","n","e">>>>)
        THEN Decimal(7, 10)
        ELSE IF ContainsAny(text, <<<<"m","e","e","t","i","n","g">>, <<"c","a","l","l">>, <<"p","r","e","s","e","n","t","a","t","i","o","n">>>>)
        THEN Decimal(6, 10)
        ELSE Decimal(5, 10)

\* the day offset TaskAnalyzer._calculate_fallback_deadline adds to now
fallback_deadline_days(description) ==
    LET text == Lower(description)
    IN  IF ContainsAny(text, <<<<"u","r","g","e","n","t">>, <<"a","s","a","p">>, <<"t","o","d","a","y">>>>) THEN 1
        ELSE IF ContainsAny(text, <<<<"t","o","m","o","r","r","o","w">>, <<"s","o","o","n">>>>) THEN 2
        ELSE IF ContainsAny(text, <<<<"w","e","e","k">>, <<"w","e","e","k","l","y">>>>) THEN 7
        ELSE 3

\* TaskAnalyzer._calculate_fallback_deadline
_calculate_fallback_deadline(description) ==
    AddDays(now, fallback_deadline_days(description))

\* context_info of analyze_task_priority, lines 15-24
RECURSIVE priority_context_lines(_)
priority_context_lines(ctxs) ==
    IF ctxs = << >> THEN << >>
    ELSE <<"-"," ">> \o Prefix(Head(ctxs).content, 100) \o <<".",".",".","\n">>
             \o priority_context_lines(Tail(ctxs))

priority_context_info(context_data) ==
    LET urgent(ctx) == ctx.urgency_level > 5
        recent_contexts == Prefix(SelectSeq(context_data, urgent), 3)
    IN  IF recent_contexts = << >> THEN << >>
        ELSE <<"\n","R","e","c","e","n","t"," ","i","m","p","o","r","t","a","n","t"," ","c","o","n","t","e","x","t",":","\n">> \o priority_context_lines(recent_contexts)

\* the prompt of analyze_task_priority, lines 26-40
priority_prompt(task_title, task_description, context_data) ==
    PRIORITY_PROMPT1 \o task_title \o PRIORITY_PROMPT2 \o task_description
        \o PRIORITY_PROMPT3 \o priority_context_info(context_data) \o PRIORITY_PROMPT4

\* analyze_task_priority with the keyword fallback, not 0.5, when no number is found
analyze_task_priority_keyword_default(task_title, task_description, r) ==
    IF r.raised THEN _calculate_fallback_priority(task_title, task_description)
    ELSE LET numbers == FindPriorityNumbers(r.text, 1)
         IN  IF numbers # << >> THEN ParseFloat(numbers[1])
             ELSE _calculate_fallback_priority(task_title, task_description)

\* analyze_task_priority taking the last match of line 46, not the first
analyze_task_priority_last_number(task_title, task_description, r) ==
    IF r.raised THEN _calculate_fallback_priority(task_title, task_description)
    ELSE LET numbers == FindPriorityNumbers(r.text, 1)
         IN  IF numbers # << >> THEN ParseFloat(numbers[Len(numbers)]) ELSE Decimal(5, 10)

\* TaskAnalyzer.analyze_task_priority, lines 42-52, given what the gateway did
analyze_task_priority(task_title, task_description, r) ==
    IF r.raised THEN _calculate_fallback_priority(task_title, task_description)
    ELSE LET numbers == FindPriorityNumbers(r.text, 1)
         IN  IF numbers # << >> THEN ParseFloat(numbers[1]) ELSE Decimal(5, 10)

\* the prompt of suggest_deadline, lines 57-66
deadline_prompt(task_title, task_description, current_workload) ==
    DEADLINE_PROMPT1 \o task_title \o DEADLINE_PROMPT2 \o task_description
        \o DEADLINE_PROMPT3 \o IntToStr(current_workload) \o DEADLINE_PROMPT4

Min(a, b) == IF a < b THEN a ELSE b

\* the cap of line 74
MAX_DAYS_AHEAD == 30

\* the default of line 77
DEFAULT_DAYS == 3

\* TaskAnalyzer.suggest_deadline, lines 68-79, given what the gateway did
suggest_deadline(task_description, r) ==
    IF r.raised THEN _calculate_fallback_deadline(task_description)
    ELSE LET days == FindIntegers(r.text, 1)
         IN  IF days # << >> THEN AddDays(now, Min(StrToInt(days[1]), MAX_DAYS_AHEAD))
             ELSE AddDays(now, DEFAULT_DAYS)

\* context_info of enhance_task_description, lines 126-130
RECURSIVE enhance_context_lines(_)
enhance_context_lines(ctxs) ==
    IF ctxs = << >> THEN << >>
    ELSE <<"-"," ">> \o Prefix(Head(ctxs).context.content, 150) \o <<".",".",".","\n">>
             \o enhance_context_lines(Tail(ctxs))

enhance_context_info(relevant_contexts) ==
    IF relevant_contexts = << >> THEN << >>
    ELSE <<"\n","R","e","l","e","v","a","n","t"," ","c","o","n","t","e","x","t",":","\n">> \o enhance_context_lines(Prefix(relevant_contexts, 2))

\* the prompt of enhance_task_description, lines 132-145
enhance_prompt(task_title, original_description, relevant_contexts) ==
    ENHANCE_PROMPT1 \o task_title \o ENHANCE_PROMPT2 \o original_description
        \o ENHANCE_PROMPT3 \o enhance_context_info(relevant_contexts) \o ENHANCE_PROMPT4

\* TaskAnalyzer.enhance_task_description, lines 147-151, given what the gateway did
enhance_task_description(task_title, original_description, r) ==
    IF r.raised
    THEN (IF original_description # << >> THEN original_description
          ELSE <<"C","o","m","p","l","e","t","e"," ","t","h","e"," ","t","a","s","k",":"," ">> \o task_title)
    ELSE Strip(r.text)

---------------------------------------------------------------------------
(* ai_module/task_analyzer.py: tags                                        *)

\* the prompt of suggest_tags, the f-string of lines 107-114
tags_prompt(task_title, task_description) ==
    <<"\n"," "," "," "," "," "," "," "," ","S","u","g","g","e","s","t"," ","3","-","5"," ","r","e","l",
    "e","v","a","n","t"," ","t","a","g","s"," ","f","o","r"," ","t","h","i","s"," ","t","a","s","k",
    ":","\n"," "," "," "," "," "," "," "," ","\n"," "," "," "," "," "," "," "," ","T","a","s","k",":",
    " ">>
        \o task_title
        \o <<"\n"," "," "," "," "," "," "," "," ","D","e","s","c","r","i","p","t","i","o","n",":"," ">>
        \o task_description
        \o <<"\n"," "," "," "," "," "," "," "," ","\n"," "," "," "," "," "," "," "," ","R","e","s","p","o","n",
    "d"," ","w","i","t","h"," ","c","o","m","m","a","-","s","e","p","a","r","a","t","e","d"," ","t",
    "a","g","s"," ","(","n","o"," ","s","p","a","c","e","s"," ","a","f","t","e","r"," ","c","o","m",
    "m","a","s",")",".","\n"," "," "," "," "," "," "," "," ">>

\* str.split(sep) for a one-character separator: the pieces between the
\* separators, one more than there are separators
RECURSIVE Split(_, _)
Split(s, sep) ==
    IF \A i \in 1..Len(s) : s[i] # sep THEN <<s>>
    ELSE LET i == CHOOSE k \in 1..Len(s) : s[k] = sep /\ \A j \in 1..(k - 1) : s[j] # sep
         IN  <<SubSeq(s, 1, i - 1)>> \o Split(SubSeq(s, i + 1, Len(s)), sep)

\* the cap of line 119
MAX_TAGS == 5

\* the cap of line 256
MAX_FALLBACK_TAGS == 3

\* TaskAnalyzer._suggest_fallback_tags
_suggest_fallback_tags(title, description) ==
    LET text == TaskText(title, description)
        Tag(words, tag) == IF ContainsAny(text, words) THEN <<tag>> ELSE << >>
        tags == Tag(<<<<"u","r","g","e","n","t">>, <<"a","s","a","p">>, <<"c","r","i","t","i","c","a","l">>>>, <<"u","r","g","e","n","t">>)
                \o Tag(<<<<"m","e","e","t","i","n","g">>, <<"c","a","l","l">>>>, <<"m","e","e","t","i","n","g">>)
                \o Tag(<<<<"w","o","r","k">>, <<"o","f","f","i","c","e">>, <<"p","r","o","j","e","c","t">>>>, <<"w","o","r","k">>)
                \o Tag(<<<<"p","e","r","s","o","n","a","l">>, <<"h","o","m","e">>, <<"f","a","m","i","l","y">>>>, <<"p","e","r","s","o","n","a","l">>)
                \o Tag(<<<<"f","o","l","l","o","w","-","u","p">>, <<"f","o","l","l","o","w","u","p">>, <<"f","o","l","l","o","w">>>>, <<"f","o","l","l","o","w","-","u","p">>)
    IN  Prefix(IF tags = << >> THEN <<<<"t","a","s","k">>>> ELSE tags, MAX_FALLBACK_TAGS)

\* suggest_tags without the slice of line 119
suggest_tags_uncapped(task_title, task_description, r) ==
    IF r.raised THEN _suggest_fallback_tags(task_title, task_description)
    ELSE LET pieces == Split(r.text, ",")
         IN  [i \in 1..Len(pieces) |-> Lower(Strip(pieces[i]))]

\* TaskAnalyzer.suggest_tags, lines 116-121, given what the gateway did
suggest_tags(task_title, task_description, r) ==
    IF r.raised THEN _suggest_fallback_tags(task_title, task_description)
    ELSE LET pieces == Split(r.text, ",")
             tags == [i \in 1..Len(pieces) |-> Lower(Strip(pieces[i]))]
         IN  Prefix(tags, MAX_TAGS)

---------------------------------------------------------------------------
(* ai_module/task_analyzer.py: category                                    *)

\* sep.join(pieces)
RECURSIVE Join(_, _)
Join(pieces, sep) ==
    IF pieces = << >> THEN << >>
    ELSE IF Len(pieces) = 1 THEN pieces[1]
    ELSE pieces[1] \o sep \o Join(Tail(pieces), sep)

\* the prompt of suggest_category, lines 84-97
category_prompt(task_title, task_description, existing_categories) ==
    LET categories_info ==
            IF existing_categories # << >>
            THEN <<"\n","E","x","i","s","t","i","n","g"," ","c","a","t","e","g","o","r","i","e","s",":"," ">> \o Join(existing_categories, <<","," ">>)
            ELSE << >>
    IN  <<"\n"," "," "," "," "," "," "," "," ","S","u","g","g","e","s","t"," ","t","h","e"," ","m","o","s",
    "t"," ","a","p","p","r","o","p","r","i","a","t","e"," ","c","a","t","e","g","o","r","y"," ","f",
    "o","r"," ","t","h","i","s"," ","t","a","s","k",":","\n"," "," "," "," "," "," "," "," ","\n"," ",
    " "," "," "," "," "," "," ","T","a","s","k",":"," ">>
            \o task_title
            \o <<"\n"," "," "," "," "," "," "," "," ","D","e","s","c","r","i","p","t","i","o","n",":"," ">>
            \o task_description
            \o <<"\n"," "," "," "," "," "," "," "," ">>
            \o categories_info
            \o <<"\n"," "," "," "," "," "," "," "," ","\n"," "," "," "," "," "," "," "," ","C","h","o","o","s","e",
    " ","f","r","o","m"," ","e","x","i","s","t","i","n","g"," ","c","a","t","e","g","o","r","i","e",
    "s"," ","i","f"," ","p","o","s","s","i","b","l","e",","," ","o","r"," ","s","u","g","g","e","s",
    "t"," ","a"," ","n","e","w"," ","o","n","e",".","\n"," "," "," "," "," "," "," "," ","R","e","s",
    "p","o","n","d"," ","w","i","t","h"," ","o","n","l","y"," ","t","h","e"," ","c","a","t","e","g",
    "o","r","y"," ","n","a","m","e",".","\n"," "," "," "," "," "," "," "," ">>

\* str.title(): a letter that follows a letter is lower-cased, any other
\* letter is upper-cased
Title(s) ==
    LET IsLetter(c) == \E i \in 1..26 : LowerChars[i] = c \/ UpperChars[i] = c
        UpperChar(c) == IF \E i \in 1..26 : LowerChars[i] = c
                        THEN UpperChars[CHOOSE i \in 1..26 : LowerChars[i] = c]
                        ELSE c
    IN  IF s = << >> THEN << >>
        ELSE [i \in 1..Len(s) |->
                IF ~IsLetter(s[i]) THEN s[i]
                ELSE IF i > 1 /\ IsLetter(s[i - 1]) THEN LowerChar(s[i])
                ELSE UpperChar(s[i])]

\* TaskAnalyzer.suggest_category, lines 99-103, given what the gateway did,
\* with _suggest_fallback_category, lines 217-234
suggest_category(task_title, task_description, r) ==
    LET text == TaskText(task_title, task_description)
        _suggest_fallback_category ==
            IF ContainsAny(text, <<<<"m","e","e","t","i","n","g">>, <<"c","a","l","l">>, <<"d","i","s","c","u","s","s">>>>) THEN <<"M","e","e","t","i","n","g","s">>
            ELSE IF ContainsAny(text, <<<<"c","o","d","e">>, <<"d","e","v","e","l","o","p">>, <<"p","r","o","g","r","a","m">>, <<"b","u","g">>, <<"f","e","a","t","u","r","e">>>>)
            THEN <<"D","e","v","e","l","o","p","m","e","n","t">>
            ELSE IF ContainsAny(text, <<<<"e","m","a","i","l">>, <<"m","e","s","s","a","g","e">>, <<"c","o","n","t","a","c","t">>, <<"r","e","p","l","y">>>>)
            THEN <<"C","o","m","m","u","n","i","c","a","t","i","o","n">>
            ELSE IF ContainsAny(text, <<<<"b","u","y">>, <<"p","u","r","c","h","a","s","e">>, <<"s","h","o","p">>, <<"o","r","d","e","r">>>>)
            THEN <<"S","h","o","p","p","i","n","g">>
            ELSE IF ContainsAny(text, <<<<"h","e","a","l","t","h">>, <<"d","o","c","t","o","r">>, <<"e","x","e","r","c","i","s","e">>, <<"m","e","d","i","c","a","l">>>>)
            THEN <<"H","e","a","l","t","h">>
            ELSE IF ContainsAny(text, <<<<"c","l","e","a","n">>, <<"o","r","g","a","n","i","z","e">>, <<"h","o","m","e">>, <<"h","o","u","s","e">>>>)
            THEN <<"P","e","r","s","o","n","a","l">>
            ELSE <<"G","e","n","e","r","a","l">>
    IN  IF r.raised THEN _suggest_fallback_category ELSE Title(Strip(r.text))

---------------------------------------------------------------------------
(* json.loads                                                              *)

RECURSIVE SkipWs(_, _)
SkipWs(s, i) ==
    IF i <= Len(s) /\ s[i] \in {" ", "\t", "\n", "\r"} THEN SkipWs(s, i + 1) ELSE i

HasAt(s, i, word) ==
    /\ i + Len(word) - 1 <= Len(s)
    /\ \A j \in 1..Len(word) : s[i + j - 1] = word[j]

IsHex(c) == IsDigit(c) \/ c \in {"a", "b", "c", "d", "e", "f", "A", "B", "C", "D", "E", "F"}

\* the index after the quote that closes the string whose content is scanned
\* from s[j]; 0 when the string is not terminated or not valid
RECURSIVE StringEnd(_, _)
StringEnd(s, j) ==
    IF j > Len(s) THEN 0
    ELSE IF s[j] = "\"" THEN j + 1
    ELSE IF s[j] = "\\" THEN
        IF j + 1 <= Len(s) /\ s[j + 1] \in {"\"", "\\", "/", "b", "f", "n", "r", "t"}
        THEN StringEnd(s, j + 2)
        ELSE IF j + 5 <= Len(s) /\ s[j + 1] = "u" /\ \A k \in 2..5 : IsHex(s[j + k])
        THEN StringEnd(s, j + 6)
        ELSE 0
    ELSE IF s[j] \in {"\n", "\t", "\r"} THEN 0
    ELSE StringEnd(s, j + 1)

\* the last index of a match of -?(0|[1-9]\d*)(\.\d+)?([eE][-+]?\d+)? at s[i];
\* 0 when there is none
NumberEnd(s, i) ==
    LET a == IF s[i] = "-" THEN i + 1 ELSE i
        intEnd == IF a > Len(s) \/ ~IsDigit(s[a]) THEN 0
                  ELSE IF s[a] = "0" THEN a
                  ELSE DigitRunEnd(s, a)
        fracEnd == IF intEnd + 2 <= Len(s) /\ s[intEnd + 1] = "." /\ IsDigit(s[intEnd + 2])
                   THEN DigitRunEnd(s, intEnd + 2)
                   ELSE intEnd
        signed == fracEnd + 2 <= Len(s) /\ s[fracEnd + 2] \in {"+", "-"}
        expDigit == IF signed THEN fracEnd + 3 ELSE fracEnd + 2
        expEnd == IF /\ fracEnd + 1 <= Len(s)
                     /\ s[fracEnd + 1] \in {"e", "E"}
                     /\ expDigit <= Len(s)
                     /\ IsDigit(s[expDigit])
                  THEN DigitRunEnd(s, expDigit)
                  ELSE fracEnd
    IN  IF intEnd = 0 THEN 0 ELSE expEnd

JsonFail == [ok |-> FALSE, next |-> 0, kind |-> "none", keys |-> {}]
JsonOk(next, kind, keys) == [ok |-> TRUE, next |-> next, kind |-> kind, keys |-> keys]

RECURSIVE JsonValue(_, _)
RECURSIVE JsonMembers(_, _, _)
RECURSIVE JsonElements(_, _)

\* scan_once: the value that starts at s[i]
JsonValue(s, i) ==
    IF i > Len(s) THEN JsonFail
    ELSE IF s[i] = "\"" THEN
        (IF StringEnd(s, i + 1) = 0 THEN JsonFail
         ELSE JsonOk(StringEnd(s, i + 1), "string", {}))
    ELSE IF s[i] = "{" THEN
        (IF HasAt(s, SkipWs(s, i + 1), <<"}">>)
         THEN JsonOk(SkipWs(s, i + 1) + 1, "object", {})
         ELSE JsonMembers(s, SkipWs(s, i + 1), {}))
    ELSE IF s[i] = "[" THEN
        (IF HasAt(s, SkipWs(s, i + 1), <<"]">>)
         THEN JsonOk(SkipWs(s, i + 1) + 1, "array", {})
         ELSE JsonElements(s, SkipWs(s, i + 1)))
    ELSE IF HasAt(s, i, <<"n","u","l","l">>) THEN JsonOk(i + 4, "null", {})
    ELSE IF HasAt(s, i, <<"t","r","u","e">>) THEN JsonOk(i + 4, "true", {})
    ELSE IF HasAt(s, i, <<"f","a","l","s","e">>) THEN JsonOk(i + 5, "false", {})
    ELSE IF NumberEnd(s, i) # 0 THEN JsonOk(NumberEnd(s, i) + 1, "number", {})
    ELSE IF HasAt(s, i, <<"N","a","N">>) THEN JsonOk(i + 3, "number", {})
    ELSE IF HasAt(s, i, <<"I","n","f","i","n","i","t","y">>) THEN JsonOk(i + 8, "number", {})
    ELSE IF HasAt(s, i, <<"-","I","n","f","i","n","i","t","y">>) THEN JsonOk(i + 9, "number", {})
    ELSE JsonFail

\* the members of an object from the key that starts at s[i]
JsonMembers(s, i, keys) ==
    IF i > Len(s) \/ s[i] # "\"" \/ StringEnd(s, i + 1) = 0 THEN JsonFail
    ELSE LET keyEnd == StringEnd(s, i + 1)
             key == SubSeq(s, i + 1, keyEnd - 2)
             colon == SkipWs(s, keyEnd)
         IN  IF ~HasAt(s, colon, <<":">>) THEN JsonFail
             ELSE LET v == JsonValue(s, SkipWs(s, colon + 1))
                      n == SkipWs(s, v.next)
                  IN  IF ~v.ok THEN JsonFail
                      ELSE IF HasAt(s, n, <<"}">>)
                      THEN JsonOk(n + 1, "object", keys \cup {key})
                      ELSE IF HasAt(s, n, <<",">>)
                      THEN JsonMembers(s, SkipWs(s, n + 1), keys \cup {key})
                      ELSE JsonFail

\* the elements of an array from the value that starts at s[i]
JsonElements(s, i) ==
    LET v == JsonValue(s, i)
        n == SkipWs(s, v.next)
    IN  IF ~v.ok THEN JsonFail
        ELSE IF HasAt(s, n, <<"]">>) THEN JsonOk(n + 1, "array", {})
        ELSE IF HasAt(s, n, <<",">>) THEN JsonElements(s, SkipWs(s, n + 1))
        ELSE JsonFail

\* json.loads(s): ok is FALSE where it raises JSONDecodeError
json_loads(s) ==
    LET v == JsonValue(s, SkipWs(s, 1))
    IN  IF v.ok /\ SkipWs(s, v.next) = Len(s) + 1 THEN v ELSE JsonFail

---------------------------------------------------------------------------
(* ai_module/context_processor.py                                          *)

\* text.count('!')
RECURSIVE CountChar(_, _)
CountChar(s, c) ==
    IF s = << >> THEN 0
    ELSE (IF Head(s) = c THEN 1 ELSE 0) + CountChar(Tail(s), c)

\* _calculate_urgency with the second time test as an `if`, not an `elif`
_calculate_urgency_additive(text) ==
    LET text_lower == Lower(text)
        high == IF ContainsAny(text_lower,
                       <<<<"u","r","g","e","n","t">>, <<"a","s","a","p">>, <<"i","m","m","e","d","i","a","t","e","l","y">>, <<"e","m","e","r","g","e","n","c","y">>>>)
                THEN 4 ELSE 0
        medium == IF ContainsAny(text_lower, <<<<"i","m","p","o","r","t","a","n","t">>, <<"p","r","i","o","r","i","t","y">>, <<"d","e","a","d","l","i","n","e">>>>)
                  THEN 2 ELSE 0
        time == (IF ContainsAny(text_lower, <<<<"t","o","d","a","y">>, <<"n","o","w">>, <<"t","o","n","i","g","h","t">>>>) THEN 3 ELSE 0)
                + (IF ContainsAny(text_lower, <<<<"t","o","m","o","r","r","o","w">>, <<"t","h","i","s"," ","w","e","e","k">>>>) THEN 2 ELSE 0)
    IN  Min(1 + high + medium + time + Min(CountChar(text, "!"), 2), 10)

\* ContextProcessor._calculate_urgency
_calculate_urgency(text) ==
    LET text_lower == Lower(text)
        high == IF ContainsAny(text_lower,
                       <<<<"u","r","g","e","n","t">>, <<"a","s","a","p">>, <<"i","m","m","e","d","i","a","t","e","l","y">>, <<"e","m","e","r","g","e","n","c","y">>>>)
                THEN 4 ELSE 0
        medium == IF ContainsAny(text_lower, <<<<"i","m","p","o","r","t","a","n","t">>, <<"p","r","i","o","r","i","t","y">>, <<"d","e","a","d","l","i","n","e">>>>)
                  THEN 2 ELSE 0
        time == IF ContainsAny(text_lower, <<<<"t","o","d","a","y">>, <<"n","o","w">>, <<"t","o","n","i","g","h","t">>>>) THEN 3
                ELSE IF ContainsAny(text_lower, <<<<"t","o","m","o","r","r","o","w">>, <<"t","h","i","s"," ","w","e","e","k">>>>) THEN 2
                ELSE 0
    IN  Min(1 + high + medium + time + Min(CountChar(text, "!"), 2), 10)

\* 'has_deadline_mention' of process_context_entry, lines 92-93
has_deadline_mention(content) ==
    ContainsAny(Lower(content), <<<<"d","e","a","d","l","i","n","e">>, <<"d","u","e">>, <<"b","y">>>>)

\* the prompt of process_context_entry, lines 99-112
context_prompt(content, source_type) ==
    CONTEXT_PROMPT1 \o Lower(source_type) \o CONTEXT_PROMPT2 \o content \o CONTEXT_PROMPT3

\* insights['ai_analysis'] of process_context_entry, lines 114-121: the parsed
\* value (its JSON type and, for an object, its keys), the raw text, or the
\* error of an exception
ai_analysis(r) ==
    IF r.raised THEN [tag |-> "error", kind |-> "none", keys |-> {}, text |-> << >>]
    ELSE IF json_loads(r.text).ok
    THEN [tag |-> "parsed", kind |-> json_loads(r.text).kind,
          keys |-> json_loads(r.text).keys, text |-> << >>]
    ELSE [tag |-> "raw_response", kind |-> "none", keys |-> {}, text |-> r.text]


---------------------------------------------------------------------------
(* ai_module/context_processor.py: keywords, sentiment, relevance          *)

\* re.sub(r'[^\w\s]', ' ', s), line 18
StripPunctuation(s) ==
    LET IsWordChar(c) == \/ \E i \in 1..26 : LowerChars[i] = c \/ UpperChars[i] = c
                         \/ IsDigit(c)
                         \/ c = "_"
    IN  IF s = << >> THEN << >>
        ELSE [i \in 1..Len(s) |-> IF IsWordChar(s[i]) \/ IsSpace(s[i]) THEN s[i] ELSE " "]

\* str.split(): the maximal runs of characters that are not white space
RECURSIVE Words(_)
Words(s) ==
    LET t == LStrip(s)
    IN  IF t = << >> THEN << >>
        ELSE LET n == IF \E k \in 1..Len(t) : IsSpace(t[k])
                      THEN CHOOSE k \in 1..Len(t) :
                              IsSpace(t[k]) /\ \A j \in 1..(k - 1) : ~IsSpace(t[j])
                      ELSE Len(t) + 1
             IN  <<SubSeq(t, 1, n - 1)>> \o Words(SubSeq(t, n, Len(t)))

\* stop_words of extract_keywords, lines 22-28
STOP_WORDS ==
    { <<"t","h","e">>, <<"a">>, <<"a","n">>, <<"a","n","d">>, <<"o","r">>, <<"b","u","t">>, <<"i","n">>, <<"o","n">>, <<"a","t">>, <<"t","o">>, <<"f","o","r">>,
      <<"o","f">>, <<"w","i","t","h">>, <<"b","y">>, <<"f","r","o","m">>, <<"a","s">>, <<"i","s">>, <<"a","r","e">>, <<"w","a","s">>, <<"w","e","r","e">>, <<"b","e">>,
      <<"b","e","e","n">>, <<"b","e","i","n","g">>, <<"h","a","v","e">>, <<"h","a","s">>, <<"h","a","d">>, <<"d","o">>, <<"d","o","e","s">>, <<"d","i","d">>, <<"w","i","l","l">>,
      <<"w","o","u","l","d">>, <<"c","o","u","l","d">>, <<"s","h","o","u","l","d">>, <<"m","a","y">>, <<"m","i","g","h","t">>, <<"c","a","n">>, <<"t","h","i","s">>, <<"t","h","a","t">>,
      <<"t","h","e","s","e">>, <<"t","h","o","s","e">>, <<"i">>, <<"y","o","u">>, <<"h","e">>, <<"s","h","e">>, <<"i","t">>, <<"w","e">>, <<"t","h","e","y">> }

\* the length a keyword must exceed, line 30
MIN_KEYWORD_LEN == 2

\* the cap of line 31
MAX_KEYWORDS == 10

ToSet(s) == { s[i] : i \in 1..Len(s) }

\* the elements of a list, each once, in the order of their first occurrence
RECURSIVE Distinct(_)
Distinct(s) ==
    IF s = << >> THEN << >>
    ELSE LET front == Distinct(SubSeq(s, 1, Len(s) - 1))
         IN  IF s[Len(s)] \in ToSet(front) THEN front ELSE Append(front, s[Len(s)])

\* the list `keywords` of line 30
keyword_candidates(text) ==
    SelectSeq(Words(StripPunctuation(Lower(text))),
              LAMBDA word : Len(word) > MIN_KEYWORD_LEN /\ word \notin STOP_WORDS)

\* extract_keywords without the slice of line 31
extract_keywords_uncapped(text) == ToSet(keyword_candidates(text))

\* extract_keywords with a set order that changes from one call to the next
extract_keywords_reordered(text) ==
    LET distinct == Distinct(keyword_candidates(text))
        c == Len(distinct)
        seed == hash_seed + (IF prev.name = "none" THEN 0 ELSE 1)
        left_out == IF c <= MAX_KEYWORDS THEN {}
                    ELSE { ((seed + j) % c) + 1 : j \in 0..(c - MAX_KEYWORDS - 1) }
    IN  { distinct[i] : i \in (1..c) \ left_out }

\* ContextProcessor.extract_keywords: list(set(keywords))[:10], line 31, as the
\* set of its elements. The order of list(set(...)) is that of the set's hash
\* table, which the process's string hash seed fixes: of c > 10 distinct
\* candidates the seed leaves out c - 10, here those at the positions
\* hash_seed + 1, hash_seed + 2, ... (cyclically) of their first occurrence.
extract_keywords(text) ==
    LET distinct == Distinct(keyword_candidates(text))
        c == Len(distinct)
        left_out == IF c <= MAX_KEYWORDS THEN {}
                    ELSE { ((hash_seed + j) % c) + 1 : j \in 0..(c - MAX_KEYWORDS - 1) }
    IN  { distinct[i] : i \in (1..c) \ left_out }

\* a float that is the quotient of two small integers, as the fraction in
\* lowest terms
Ratio(num, den) ==
    LET gcd == CHOOSE g \in 1..den :
                  /\ num % g = 0 /\ den % g = 0
                  /\ \A h \in (g + 1)..den : num % h # 0 \/ den % h # 0
    IN  [num |-> num \div gcd, den |-> den \div gcd]

\* positive_words of analyze_sentiment, lines 35-38
POSITIVE_WORDS ==
    << <<"g","o","o","d">>, <<"g","r","e","a","t">>, <<"e","x","c","e","l","l","e","n","t">>, <<"a","m","a","z","i","n","g">>, <<"w","o","n","d","e","r","f","u","l">>, <<"f","a","n","t","a","s","t","i","c">>,
       <<"l","o","v","e">>, <<"l","i","k","e">>, <<"e","n","j","o","y">>, <<"h","a","p","p","y">>, <<"e","x","c","i","t","e","d">>, <<"p","l","e","a","s","e","d">>, <<"s","a","t","i","s","f","i","e","d">> >>

\* negative_words of analyze_sentiment, lines 39-42
NEGATIVE_WORDS ==
    << <<"b","a","d">>, <<"t","e","r","r","i","b","l","e">>, <<"a","w","f","u","l">>, <<"h","a","t","e">>, <<"d","i","s","l","i","k","e">>, <<"a","n","g","r","y">>, <<"f","r","u","s","t","r","a","t","e","d">>,
       <<"u","p","s","e","t">>, <<"a","n","n","o","y","e","d">>, <<"d","i","s","a","p","p","o","i","n","t","e","d">>, <<"w","o","r","r","i","e","d">>, <<"s","t","r","e","s","s","e","d">>, <<"u","r","g","e","n","t">> >>

\* analyze_sentiment counting the listed words among the tokens of the text
analyze_sentiment_by_token(text) ==
    LET tokens == Words(StripPunctuation(Lower(text)))
        Count(words) == Cardinality({ i \in 1..Len(tokens) :
                                        \E k \in 1..Len(words) : tokens[i] = words[k] })
        positive_score == Count(POSITIVE_WORDS)
        negative_score == Count(NEGATIVE_WORDS)
    IN  IF positive_score + negative_score = 0 THEN Ratio(1, 2)
        ELSE Ratio(positive_score, positive_score + negative_score)

\* ContextProcessor.analyze_sentiment
analyze_sentiment(text) ==
    LET text_lower == Lower(text)
        Count(words) == Cardinality({ k \in 1..Len(words) : Contains(text_lower, words[k]) })
        positive_score == Count(POSITIVE_WORDS)
        negative_score == Count(NEGATIVE_WORDS)
        total_score == positive_score + negative_score
    IN  IF total_score = 0 THEN Ratio(1, 2)
        ELSE Ratio(positive_score, total_score)

\* the threshold of line 161, 0.1
MIN_RELEVANCE == Ratio(1, 10)

\* the cap of line 170
MAX_RELEVANT == 5

\* a < b for two fractions
Less(a, b) == a.num * b.den < b.num * a.den

\* the match of lines 155-166 for one context entry and the task's keywords
relevance_match(task_keywords, context) ==
    LET context_keywords == IF "keywords" \in DOMAIN context
                            THEN ToSet(context.keywords) ELSE {}
        overlap == task_keywords \cap context_keywords
        size == Cardinality(task_keywords)
    IN  [context |-> context,
         relevance_score |-> Ratio(Cardinality(overlap), IF size > 1 THEN size ELSE 1),
         matching_keywords |-> overlap]

\* the list built by the loop of lines 154-166, in the order of context_entries
relevant_matches(task_keywords, context_entries) ==
    SelectSeq([i \in 1..Len(context_entries) |->
                  relevance_match(task_keywords, context_entries[i])],
              LAMBDA m : Less(MIN_RELEVANCE, m.relevance_score))

\* list.sort(key=relevance_score, reverse=True), line 169: a stable sort, in
\* which matches of equal score keep their order
RECURSIVE SortByScore(_)
SortByScore(matches) ==
    IF matches = << >> THEN << >>
    ELSE LET sorted == SortByScore(SubSeq(matches, 1, Len(matches) - 1))
             last == matches[Len(matches)]
             k == Cardinality({ i \in 1..Len(sorted) :
                    ~Less(sorted[i].relevance_score, last.relevance_score) })
         IN  SubSeq(sorted, 1, k) \o <<last>> \o SubSeq(sorted, k + 1, Len(sorted))

\* find_relevant_contexts without the sort of line 169
find_relevant_contexts_unsorted(task_content, context_entries) ==
    Prefix(relevant_matches(extract_keywords(task_content), context_entries), MAX_RELEVANT)

\* find_relevant_contexts without the test of line 161
find_relevant_contexts_no_threshold(task_content, context_entries) ==
    LET task_keywords == extract_keywords(task_content)
    IN  Prefix(SortByScore([i \in 1..Len(context_entries) |->
                               relevance_match(task_keywords, context_entries[i])]),
               MAX_RELEVANT)

\* ContextProcessor.find_relevant_contexts
find_relevant_contexts(task_content, context_entries) ==
    Prefix(SortByScore(relevant_matches(extract_keywords(task_content), context_entries)),
           MAX_RELEVANT)

\* ContextProcessor.process_context_entry, given what the gateway did;
\* 'dates_mentioned' is left out
process_context_entry(content, source_type, r) ==
    [keywords |-> extract_keywords(content),
     sentiment_score |-> analyze_sentiment(content),
     priority_indicators |->
        SelectSeq(<<<<"u","r","g","e","n","t">>, <<"a","s","a","p">>, <<"i","m","m","e","d","i","a","t","e","l","y">>, <<"d","e","a","d","l","i","n","e">>, <<"d","u","e">>,
                    <<"i","m","p","o","r","t","a","n","t">>, <<"c","r","i","t","i","c","a","l">>, <<"p","r","i","o","r","i","t","y">>, <<"r","u","s","h">>, <<"e","m","e","r","g","e","n","c","y">>,
                    <<"t","o","d","a","y">>, <<"t","o","m","o","r","r","o","w">>>>,
                  LAMBDA keyword : Contains(Lower(content), keyword)),
     word_count |-> Len(Words(content)),
     has_deadline_mention |-> has_deadline_mention(content),
     urgency_level |-> _calculate_urgency(content),
     ai_analysis |-> ai_analysis(r)]

---------------------------------------------------------------------------
(* Inputs                                                                  *)

\* prompts given to analyze_with_ai directly
RawPrompts ==
    { <<"S","e","t"," ","t","h","e"," ","p","r","i","o","r","i","t","y"," ","b","e","f","o","r","e"," ","t","h","e"," ","d","e","a","d","l","i","n","e">>,
      <<"P","i","c","k"," ","a"," ","d","e","a","d","l","i","n","e">>,
      <<"C","h","o","o","s","e"," ","a"," ","C","A","T","E","G","O","R","Y"," ","a","n","d"," ","t","a","g","s">>,
      <<"s","u","g","g","e","s","t"," ","t","a","g","s">>,
      <<"h","e","l","l","o"," ","t","h","e","r","e">> }

\* tasks: title and description
Tasks ==
    { [title |-> <<"U","R","G","E","N","T",":"," ","f","i","x"," ","t","h","i","s"," ","t","o","d","a","y">>, description |-> << >>],
      [title |-> <<"B","u","y"," ","m","i","l","k">>, description |-> <<"p","l","e","a","s","e"," ","d","o"," ","t","h","i","s"," ","a","s","a","p">>],
      [title |-> <<"P","l","a","n"," ","m","e","e","t","i","n","g">>, description |-> <<"w","e","e","k","l","y"," ","s","y","n","c">>],
      [title |-> <<"S","e","t"," ","p","r","i","o","r","i","t","y">>, description |-> <<"s","o","o","n">>],
      [title |-> <<"W","r","i","t","e"," ","n","o","t","e","s">>, description |-> <<"t","i","d","y"," ","d","e","s","k">>] }

\* the longest list of context entries given to an operation
MaxContexts == 2

SeqsUpTo(S, n) == UNION { [1..k -> S] : k \in 0..n }

\* context_data of analyze_task_priority: context entries with their
\* urgency_level
ContextData ==
    SeqsUpTo({ [content |-> <<"D","e","a","d","l","i","n","e"," ","m","o","v","e","d"," ","u","p",","," ","r","e","p","l","y"," ","a","s","a","p","!">>, urgency_level |-> 8],
               [content |-> <<"l","u","n","c","h","?">>, urgency_level |-> 1] }, MaxContexts)

\* relevant_contexts of enhance_task_description: matches of
\* find_relevant_contexts
RelevantContexts ==
    SeqsUpTo({ [context |-> [content |-> <<"t","a","g","s"," ","f","o","r"," ","t","h","e"," ","r","e","l","e","a","s","e">>]],
               [context |-> [content |-> <<"c","a","l","l"," ","t","h","e"," ","v","e","n","d","o","r">>]] }, MaxContexts)

\* current_workload of suggest_deadline
Workloads == {5}

\* content and source_type of process_context_entry
Contents ==
    { <<"T","e","a","m"," ","l","u","n","c","h"," ","o","n"," ","f","r","i","d","a","y">>,
      <<"U","R","G","E","N","T","!","!","!"," ","t","o","d","a","y">>,
      <<"r","e","p","o","r","t"," ","d","u","e"," ","t","o","m","o","r","r","o","w">> }

SourceTypes == { <<"E","M","A","I","L">>, <<"N","O","T","E","S">> }

\* texts a provider may answer with
ProviderTexts ==
    { <<"0",".","8","5">>,
      <<" ","0",".","2","5","0","\n">>,
      <<"1",".","0">>,
      <<"h","i","g","h">>,
      <<"7">>,
      <<"a","b","o","u","t"," ","4","5"," ","d","a","y","s">>,
      <<"i","n"," ","a"," ","f","e","w"," ","d","a","y","s">>,
      << >>,
      UNAVAILABLE_MARK,
      SENTINEL,
      <<"A","n","a","l","y","s","i","s"," ","u","n","a","v","a","i","l","a","b","l","e"," ","r","i","g",
    "h","t"," ","n","o","w",","," ","t","r","y"," ","l","a","t","e","r">>,
      <<"{","\"","t","o","p","i","c","\"",":"," ","\"","l","u","n","c","h","\"",","," ","\"","d","e","a","d",
    "l","i","n","e","s","\"",":"," ","[","]",","," ","\"","p","r","i","o","r","i","t","y","\"",":"," ",
    "3",","," ","\"","c","a","t","e","g","o","r","y","\"",":"," ","\"","s","o","c","i","a","l","\"",",",
    " ","\"","a","c","t","i","o","n","s","\"",":"," ","[","\"","r","s","v","p","\"","]","}">>,
      <<"[","1",","," ","2","]">>,
      <<"B","e","t","t","e","r",":"," ","d","o"," ","i","t",".">> }

\* outcomes of the request to the primary endpoint
LmStudioResponses ==
    { [kind |-> "exception", status |-> 0, body |-> "none", text |-> << >>],
      [kind |-> "http", status |-> 500, body |-> "none", text |-> << >>] }
    \cup { [kind |-> "http", status |-> 200, body |-> b, text |-> << >>] :
             b \in {"invalid_json", "no_choices", "empty_choices", "no_text", "null_text"} }
    \cup { [kind |-> "http", status |-> 200, body |-> "text", text |-> t] :
             t \in ProviderTexts }

\* outcomes of the request to the secondary provider
OpenAIResponses ==
    { [kind |-> "exception", text |-> << >>],
      [kind |-> "null_content", text |-> << >>] }
    \cup { [kind |-> "text", text |-> t] : t \in ProviderTexts }

Dates == { <<2026, 11, 1>>, <<2026, 12, 30>>, <<2028, 2, 27>> }

---------------------------------------------------------------------------
(* The program                                                             *)

NoOp == [name |-> "none"]
Pending(provider) == [provider |-> provider, outcome |-> "pending", text |-> << >>]
NoResult == [raised |-> FALSE, text |-> << >>]
NoReturn == [raised |-> FALSE, value |-> "none"]
NoFrame == [active |-> FALSE]
NoTables == [tasks |-> << >>, contexts |-> << >>, categories |-> << >>, links |-> {}]

Init ==
    /\ openai_key \in BOOLEAN
    /\ now \in Dates
    /\ pc = "idle"
    /\ op = NoOp
    /\ prompt = << >>
    /\ attempts = << >>
    /\ inflight = NoRequest
    /\ result = NoResult
    /\ ret = NoReturn
    /\ hash_seed = 0
    /\ prev = NoOp
    /\ frame = NoFrame
    /\ db = NoTables

\* a public operation builds its prompt and analyze_with_ai calls
\* call_lm_studio, line 72, whose request is now in flight
Begin(operation, p) ==
    /\ pc' = "lm_studio"
    /\ op' = operation
    /\ prompt' = p
    /\ attempts' = <<Pending("lm_studio")>>
    /\ inflight' = LmStudioRequest
    /\ UNCHANGED <<openai_key, now, result, ret, hash_seed, prev, frame, db>>

AnalyzeWithAI ==
    /\ pc = "idle"
    /\ \E p \in RawPrompts :
            Begin([name |-> "analyze_with_ai"], p)

AnalyzeTaskPriority ==
    /\ pc = "idle"
    /\ \E t \in Tasks, context_data \in ContextData :
            Begin([name |-> "analyze_task_priority", title |-> t.title,
                   description |-> t.description],
                  priority_prompt(t.title, t.description, context_data))

SuggestDeadline ==
    /\ pc = "idle"
    /\ \E t \in Tasks, current_workload \in Workloads :
            Begin([name |-> "suggest_deadline", title |-> t.title,
                   description |-> t.description],
                  deadline_prompt(t.title, t.description, current_workload))

EnhanceTaskDescription ==
    /\ pc = "idle"
    /\ \E t \in Tasks, relevant_contexts \in RelevantContexts :
            Begin([name |-> "enhance_task_description", title |-> t.title,
                   description |-> t.description],
                  enhance_prompt(t.title, t.description, relevant_contexts))

ProcessContextEntry ==
    /\ pc = "idle"
    /\ \E content \in Contents, source_type \in SourceTypes :
            Begin([name |-> "process_context_entry", content |-> content,
                   source_type |-> source_type],
                  context_prompt(content, source_type))

\* Complete taking the gateway's local fallback string for a failure of the
\* call, so that the keyword fallbacks of the operations are used
Complete_keyword_fallbacks(operation, r) ==
    LET g == IF Contains(r.text, UNAVAILABLE_MARK) THEN Raised ELSE r IN
    CASE operation.name = "analyze_with_ai" ->
            [raised |-> g.raised, value |-> g.text]
      [] operation.name = "analyze_task_priority" ->
            [raised |-> FALSE,
             value |-> analyze_task_priority(operation.title, operation.description, g)]
      [] operation.name = "suggest_deadline" ->
            [raised |-> FALSE, value |-> suggest_deadline(operation.description, g)]
      [] operation.name = "enhance_task_description" ->
            [raised |-> FALSE,
             value |-> enhance_task_description(operation.title, operation.description, g)]
      [] operation.name = "suggest_category" ->
            [raised |-> FALSE,
             value |-> suggest_category(operation.title, operation.description, g)]
      [] operation.name = "suggest_tags" ->
            [raised |-> FALSE,
             value |-> suggest_tags(operation.title, operation.description, g)]
      [] operation.name = "process_context_entry" ->
            [raised |-> FALSE,
             value |-> process_context_entry(operation.content, operation.source_type, g)]

\* what the public operation returns once analyze_with_ai has returned r or raised
Complete(operation, r) ==
    CASE operation.name = "analyze_with_ai" ->
            [raised |-> r.raised, value |-> r.text]
      [] operation.name = "analyze_task_priority" ->
            [raised |-> FALSE,
             value |-> analyze_task_priority(operation.title, operation.description, r)]
      [] operation.name = "suggest_deadline" ->
            [raised |-> FALSE, value |-> suggest_deadline(operation.description, r)]
      [] operation.name = "enhance_task_description" ->
            [raised |-> FALSE,
             value |-> enhance_task_description(operation.title, operation.description, r)]
      [] operation.name = "suggest_category" ->
            [raised |-> FALSE,
             value |-> suggest_category(operation.title, operation.description, r)]
      [] operation.name = "suggest_tags" ->
            [raised |-> FALSE,
             value |-> suggest_tags(operation.title, operation.description, r)]
      [] operation.name = "process_context_entry" ->
            [raised |-> FALSE,
             value |-> process_context_entry(operation.content, operation.source_type, r)]

---------------------------------------------------------------------------
(* get_comprehensive_task_analysis and the reanalyze action                *)

\* the longest table of context entries
MaxRows == 3

\* the row ContextEntryViewSet.perform_create (tasks/views.py, lines 244-260)
\* stores for an entry: its content with the insights of process_context_entry
ContextRow(id, content, created_at) ==
    [id |-> id,
     content |-> content,
     keywords |-> Join(Distinct(keyword_candidates(content)), <<",">>),
     processed_insights |-> [urgency_level |-> _calculate_urgency(content)],
     sentiment_score |-> analyze_sentiment(content),
     created_at |-> created_at]

\* the context entries there may be, in the order of the query set
ContextRows ==
    << ContextRow(1, <<"L","u","n","c","h"," ","a","f","t","e","r"," ","t","h","e"," ","m","e","e","t","i","n","g">>, <<2026, 10, 31>>),
       ContextRow(2, <<"P","a","y"," ","t","h","e"," ","r","e","n","t"," ","a","s","a","p","!","!">>, <<2026, 10, 30>>),
       ContextRow(3, <<"P","l","a","n"," ","t","h","e"," ","p","r","o","j","e","c","t"," ","b","u","d","g","e","t">>, <<2026, 10, 29>>),
       ContextRow(4, <<"U","R","G","E","N","T",":"," ","p","r","o","j","e","c","t"," ","s","y","n","c"," ","m","e","e",
    "t","i","n","g"," ","m","o","v","e","d"," ","t","o"," ","t","o","d","a","y","!">>, <<2026, 10, 28>>),
       ContextRow(5, <<"P","l","a","n"," ","m","e","e","t","i","n","g",":"," ","p","r","o","j","e","c","t"," ","s","y","n","c">>, <<2026, 9, 1>>) >>

\* the tasks there are
TaskRows ==
    << [id |-> 1, title |-> <<"P","l","a","n"," ","m","e","e","t","i","n","g">>, description |-> <<"S","y","n","c"," ","o","n"," ","t","h","e"," ","p","r","o","j","e","c","t",".">>,
        original_description |-> <<"p","r","o","j","e","c","t"," ","s","y","n","c">>, category |-> << >>,
        ai_priority_score |-> Decimal(5, 10), ai_suggested_deadline |-> << >>,
        ai_suggested_tags |-> << >>, status |-> "TODO", completed_at |-> << >>],
       [id |-> 2, title |-> <<"t","o"," ","d","o"," ","i","t">>, description |-> << >>,
        original_description |-> << >>, category |-> << >>,
        ai_priority_score |-> Decimal(5, 10), ai_suggested_deadline |-> << >>,
        ai_suggested_tags |-> << >>, status |-> "TODO", completed_at |-> << >>] >>

AnalysisInit ==
    /\ openai_key \in BOOLEAN
    /\ now = <<2026, 11, 1>>
    /\ pc = "idle"
    /\ op = NoOp
    /\ prompt = << >>
    /\ attempts = << >>
    /\ inflight = NoRequest
    /\ result = NoResult
    /\ ret = NoReturn
    /\ hash_seed = 0
    /\ prev = NoOp
    /\ frame = NoFrame
    /\ \E ids \in { s \in SUBSET (1..Len(ContextRows)) : Cardinality(s) <= MaxRows } :
          db = [tasks |-> TaskRows,
                contexts |-> SelectSeq(ContextRows, LAMBDA row : row.id \in ids),
                categories |-> <<<<"W","o","r","k">>>>,
                links |-> {}]

\* context_data of reanalyze, tasks/views.py lines 116-126: the context
\* entries of the last 7 days as dicts
context_data(contexts) ==
    LET \* created_at >= now - 7 days, as created_at + 7 days >= now
        Recent(row) ==
            LET until == AddDays(row.created_at, 7)
            IN  \/ until[1] > now[1]
                \/ until[1] = now[1] /\ until[2] > now[2]
                \/ until[1] = now[1] /\ until[2] = now[2] /\ until[3] >= now[3]
        recent_contexts == SelectSeq(contexts, Recent)
    IN  [i \in 1..Len(recent_contexts) |->
            LET ctx == recent_contexts[i]
            IN  [content |-> ctx.content,
                 keywords |-> IF ctx.keywords # << >> THEN Split(ctx.keywords, ",")
                              ELSE << >>,
                 urgency_level |-> IF "urgency_level" \in DOMAIN ctx.processed_insights
                                   THEN ctx.processed_insights.urgency_level ELSE 1,
                 sentiment_score |-> IF ctx.sentiment_score.num # 0 THEN ctx.sentiment_score
                                     ELSE Ratio(1, 2)]]

\* get_comprehensive_task_analysis, task_analyzer.py lines 159-165: its
\* arguments and the relevant contexts, found when context entries are given
NewFrame(pk, task_title, task_description, context_entries, existing_categories) ==
    [active |-> TRUE,
     pk |-> pk,
     task_title |-> task_title,
     task_description |-> task_description,
     context_entries |-> context_entries,
     existing_categories |-> existing_categories,
     current_workload |-> 5,
     relevant_contexts |->
        IF context_entries # << >>
        THEN find_relevant_contexts(task_title \o <<" ">> \o task_description, context_entries)
        ELSE << >>,
     step |-> 0,
     calls |-> IF context_entries # << >>
               THEN <<[name |-> "find_relevant_contexts", prompt |-> << >>]>>
               ELSE << >>,
     results |-> << >>,
     analysis |-> NoOp]

\* analysis_call passing the contexts of the ranking, not the context entries,
\* to analyze_task_priority
analysis_call_ranked(step, f) ==
    LET t == f.task_title
        d == f.task_description
        Call(name, p) == [operation |-> [name |-> name, title |-> t, description |-> d],
                          prompt |-> p]
        ranked == [i \in 1..Len(f.relevant_contexts) |-> f.relevant_contexts[i].context]
    IN  CASE step = 1 -> Call("analyze_task_priority", priority_prompt(t, d, ranked))
          [] step = 2 -> Call("suggest_deadline", deadline_prompt(t, d, f.current_workload))
          [] step = 3 -> Call("suggest_category", category_prompt(t, d, f.existing_categories))
          [] step = 4 -> Call("suggest_tags", tags_prompt(t, d))
          [] step = 5 -> Call("enhance_task_description",
                              enhance_prompt(t, d, f.relevant_contexts))

\* the analyses of get_comprehensive_task_analysis, task_analyzer.py lines
\* 168-181, in the order in which the dict display evaluates them
analysis_call(step, f) ==
    LET t == f.task_title
        d == f.task_description
        Call(name, p) == [operation |-> [name |-> name, title |-> t, description |-> d],
                          prompt |-> p]
    IN  CASE step = 1 -> Call("analyze_task_priority", priority_prompt(t, d, f.context_entries))
          [] step = 2 -> Call("suggest_deadline", deadline_prompt(t, d, f.current_workload))
          [] step = 3 -> Call("suggest_category", category_prompt(t, d, f.existing_categories))
          [] step = 4 -> Call("suggest_tags", tags_prompt(t, d))
          [] step = 5 -> Call("enhance_task_description",
                              enhance_prompt(t, d, f.relevant_contexts))

\* the analysis of this step calls analyze_with_ai, whose request to the
\* primary endpoint is now in flight
StartCall(step, f) ==
    LET call == analysis_call(step, f)
    IN  /\ pc' = "lm_studio"
        /\ op' = call.operation
        /\ prompt' = call.prompt
        /\ attempts' = <<Pending("lm_studio")>>
        /\ inflight' = LmStudioRequest
        /\ frame' = [f EXCEPT !.step = step,
                              !.calls = Append(@, [name |-> call.operation.name,
                                                    prompt |-> call.prompt])]
        /\ result' = NoResult
        /\ ret' = NoReturn
        /\ UNCHANGED <<openai_key, now, hash_seed, prev, db>>

\* TaskViewSet.reanalyze, tasks/views.py lines 113-138: up to the first
\* analysis of get_comprehensive_task_analysis
Reanalyze ==
    /\ pc = "idle"
    /\ \E pk \in 1..Len(db.tasks) :
          LET task == db.tasks[pk]
          IN  StartCall(1, NewFrame(pk, task.title,
                                    IF task.original_description # << >>
                                    THEN task.original_description ELSE task.description,
                                    context_data(db.contexts),
                                    db.categories))

\* the loop of tasks/views.py lines 158-169 over the relevant contexts that are
\* left: the links it leaves, or the KeyError of rel_ctx['context']['id']
RECURSIVE LinkContexts(_, _, _, _)
LinkContexts(links, pk, relevant_contexts, contexts) ==
    IF relevant_contexts = << >> THEN [raised |-> FALSE, links |-> links]
    ELSE LET rel_ctx == Head(relevant_contexts)
         IN  IF "id" \notin DOMAIN rel_ctx.context
             THEN [raised |-> TRUE, links |-> links]
             ELSE IF \A i \in 1..Len(contexts) : contexts[i].id # rel_ctx.context.id
             THEN LinkContexts(links, pk, Tail(relevant_contexts), contexts)
             ELSE LinkContexts(
                    { l \in links : l.task # pk \/ l.context_entry # rel_ctx.context.id }
                        \cup {[task |-> pk, context_entry |-> rel_ctx.context.id,
                               relevance_score |-> rel_ctx.relevance_score]},
                    pk, Tail(relevant_contexts), contexts)

\* TaskSerializer, tasks/serializers.py lines 27-55, of a task and its links
TaskSerializer(task, links) ==
    [id |-> task.id,
     title |-> task.title,
     description |-> task.description,
     original_description |-> task.original_description,
     category_name |-> task.category,
     ai_priority_score |-> task.ai_priority_score,
     status |-> task.status,
     ai_suggested_deadline |-> task.ai_suggested_deadline,
     ai_suggested_tags |-> task.ai_suggested_tags,
     ai_suggested_tags_list |->
        IF task.ai_suggested_tags = << >> THEN << >>
        ELSE SelectSeq([i \in 1..Len(Split(task.ai_suggested_tags, ",")) |->
                           Strip(Split(task.ai_suggested_tags, ",")[i])],
                       LAMBDA tag : tag # << >>),
     completed_at |-> task.completed_at,
     related_contexts |-> { [context_entry |-> l.context_entry,
                             relevance_score |-> l.relevance_score] :
                            l \in { x \in links : x.task = task.id } }]

\* the last analysis has returned: get_comprehensive_task_analysis returns
\* its dict (task_analyzer.py lines 167-186) and reanalyze updates the task,
\* saves it and links the relevant contexts (tasks/views.py lines 140-173);
\* context_based_notes is left out
FinishReanalyze(f, results) ==
    LET analysis == [priority_score |-> results[1],
                     suggested_deadline |-> results[2],
                     suggested_category |-> results[3],
                     suggested_tags |-> results[4],
                     enhanced_description |-> results[5],
                     relevant_contexts |-> f.relevant_contexts,
                     analysis_timestamp |-> now]
        task == db.tasks[f.pk]
        updated == [task EXCEPT
                      !.ai_priority_score = analysis.priority_score,
                      !.ai_suggested_deadline = analysis.suggested_deadline,
                      !.ai_suggested_tags = Join(analysis.suggested_tags, <<",">>),
                      !.description = analysis.enhanced_description,
                      !.category = IF analysis.suggested_category # << >>
                                   THEN analysis.suggested_category ELSE @]
        categories == IF analysis.suggested_category = << >>
                         \/ \E i \in 1..Len(db.categories) :
                               db.categories[i] = analysis.suggested_category
                      THEN db.categories
                      ELSE Append(db.categories, analysis.suggested_category)
        \* Task.save, tasks/models.py lines 50-53
        saved == IF updated.status = "COMPLETED" /\ updated.completed_at = << >>
                 THEN [updated EXCEPT !.completed_at = now] ELSE updated
        linked == LinkContexts(db.links, f.pk, analysis.relevant_contexts, db.contexts)
    IN  /\ pc' = "done"
        /\ op' = [name |-> "reanalyze", pk |-> f.pk]
        /\ frame' = [f EXCEPT !.step = 6, !.results = results, !.analysis = analysis]
        /\ db' = [db EXCEPT !.tasks[f.pk] = saved,
                            !.categories = categories,
                            !.links = linked.links]
        /\ ret' = IF linked.raised THEN [raised |-> TRUE, value |-> "KeyError"]
                  ELSE [raised |-> FALSE, value |-> TaskSerializer(saved, linked.links)]
        /\ UNCHANGED <<openai_key, now, prompt, attempts, inflight, result, hash_seed, prev>>

\* an analysis of get_comprehensive_task_analysis has returned its value: the
\* next analysis is called, or after the last the dict is returned to reanalyze
NextAnalysis ==
    /\ pc = "done"
    /\ frame.active
    /\ frame.step <= 5
    /\ LET results == Append(frame.results, ret.value)
       IN  IF frame.step < 5
           THEN StartCall(frame.step + 1, [frame EXCEPT !.results = results])
           ELSE FinishReanalyze(frame, results)

\* the pending attempt, closed with how the call ended: "failed" when it ended
\* in the local fallback or raised, and the text it returned
Closed(outcome, text) ==
    [attempts EXCEPT ![Len(attempts)] =
        [provider |-> attempts[Len(attempts)].provider, outcome |-> outcome, text |-> text]]

\* analyze_with_ai returns r (line 78) or raises, and the operation finishes
Finish(r, closed) ==
    /\ pc' = "done"
    /\ result' = r
    /\ ret' = Complete(op, r)
    /\ inflight' = NoRequest
    /\ attempts' = closed
    /\ UNCHANGED <<openai_key, now, op, prompt, hash_seed, prev, frame, db>>

\* call_openai, lines 37-49: without a key it calls call_lm_studio, with one it
\* sends the request to the secondary provider
CallOpenAI(closed) ==
    /\ pc' = IF openai_key THEN "openai" ELSE "lm_studio"
    /\ attempts' = Append(closed, Pending(IF openai_key THEN "openai" ELSE "lm_studio"))
    /\ inflight' = IF openai_key THEN OpenAIRequest ELSE LmStudioRequest
    /\ UNCHANGED <<openai_key, now, op, prompt, result, ret, hash_seed, prev, frame, db>>

\* the request of call_lm_studio ends. Called from analyze_with_ai (line 72)
\* the result goes through the test of line 75; called from call_openai
\* (lines 38, 53) it is what analyze_with_ai returns.
LmStudioResponds ==
    /\ pc = "lm_studio"
    /\ \E resp \in IF frame.active
                   THEN { x \in LmStudioResponses :
                            x.kind = "exception" \/ x.text = <<"0",".","8","5">> }
                   ELSE LmStudioResponses :
        LET r == call_lm_studio(prompt, resp)
            closed == Closed(IF lm_studio_failed(prompt, resp) THEN "failed" ELSE "answered",
                             r.text)
        IN  IF r.raised THEN Finish(r, closed)
            ELSE IF Len(attempts) = 1 /\ wants_openai(r) THEN CallOpenAI(closed)
            ELSE Finish(r, closed)

\* the request of call_openai ends: its text is returned, or the except clause
\* of lines 51-53 calls call_lm_studio
OpenAIResponds ==
    /\ pc = "openai"
    /\ \E resp \in IF frame.active
                   THEN { x \in OpenAIResponses :
                            x.kind = "exception" \/ x.text = <<"B","e","t","t","e","r",":"," ","d","o"," ","i","t",".">> }
                   ELSE OpenAIResponses :
        LET r == openai_try(resp)
        IN  IF r.raised
            THEN /\ pc' = "lm_studio"
                 /\ attempts' = Append(Closed("failed", << >>), Pending("lm_studio"))
                 /\ inflight' = LmStudioRequest
                 /\ UNCHANGED <<openai_key, now, op, prompt, result, ret, hash_seed, prev, frame, db>>
            ELSE Finish(r, Closed("answered", r.text))

\* the caller has the returned value; the next call starts from scratch
Return ==
    /\ pc = "done"
    /\ pc' = "idle"
    /\ op' = NoOp
    /\ prompt' = << >>
    /\ attempts' = << >>
    /\ result' = NoResult
    /\ ret' = NoReturn
    /\ UNCHANGED <<openai_key, now, inflight, hash_seed, prev, frame, db>>

Next ==
    \/ AnalyzeWithAI
    \/ AnalyzeTaskPriority
    \/ SuggestDeadline
    \/ EnhanceTaskDescription
    \/ ProcessContextEntry
    \/ LmStudioResponds
    \/ OpenAIResponds
    \/ Return

Spec == Init /\ [][Next]_vars


\* one reanalyze request on a database of tasks and context entries
AnalysisNext ==
    \/ Reanalyze
    \/ LmStudioResponds
    \/ OpenAIResponds
    \/ NextAnalysis

AnalysisSpec == AnalysisInit /\ [][AnalysisNext]_vars

---------------------------------------------------------------------------
(* The text functions, applied to inputs drawn from bounded sets           *)

\* the longest text given to a text function, in words
MaxWords == 3

\* the most comma-separated pieces in a gateway answer to suggest_tags
MaxPieces == 6

\* the longest list of context entries given to find_relevant_contexts
MaxEntries == 6

\* the string hash seeds of the process, 0..MaxSeed
MaxSeed == 1

\* the texts of at most n words of a vocabulary
Sentences(vocabulary, n) == { Join(words, <<" ">>) : words \in SeqsUpTo(vocabulary, n) }

PureInit ==
    /\ openai_key = FALSE
    /\ now = <<2026, 11, 1>>
    /\ pc = "idle"
    /\ op = NoOp
    /\ prompt = << >>
    /\ attempts = << >>
    /\ inflight = NoRequest
    /\ result = NoResult
    /\ ret = NoReturn
    /\ hash_seed \in 0..MaxSeed
    /\ prev = NoOp
    /\ frame = NoFrame
    /\ db = NoTables

\* the function is called with the arguments held by `operation` and returns
\* `value`
Apply(operation, value) ==
    /\ pc' = "done"
    /\ op' = operation
    /\ ret' = [raised |-> FALSE, value |-> value]
    /\ prev' = IF operation.name = "process_context_entry" THEN prev ELSE NoOp
    /\ UNCHANGED <<openai_key, now, prompt, attempts, inflight, result, hash_seed, frame, db>>

\* suggest_tags, lines 116-121, for each thing the gateway may do
EvalSuggestTags ==
    /\ pc = "idle"
    /\ \E r \in {Raised} \cup { Returned(Join(pieces, <<",">>)) :
                                 pieces \in SeqsUpTo({<<"W","o","r","k">>, <<" ","h","o","m","e"," ">>}, MaxPieces) } :
          Apply([name |-> "suggest_tags", title |-> <<"P","l","a","n"," ","m","e","e","t","i","n","g">>,
                 description |-> <<"w","e","e","k","l","y"," ","s","y","n","c">>, r |-> r],
                suggest_tags(<<"P","l","a","n"," ","m","e","e","t","i","n","g">>, <<"w","e","e","k","l","y"," ","s","y","n","c">>, r))

EvalFallbackTags ==
    /\ pc = "idle"
    /\ \E title \in {<< >>, <<"U","R","G","E","N","T"," ","c","a","l","l">>},
          description \in Sentences({<<"o","f","f","i","c","e">>, <<"f","a","m","i","l","y">>, <<"f","o","l","l","o","w","-","u","p">>, <<"w","a","l","k">>}, MaxWords) :
          Apply([name |-> "_suggest_fallback_tags", title |-> title,
                 description |-> description],
                _suggest_fallback_tags(title, description))

\* analyze_task_priority, lines 43-52, for each text the gateway may return
EvalPriority ==
    /\ pc = "idle"
    /\ \E text \in Sentences({<<"0",".","2","5">>, <<"1",".","0">>, <<"1","0",".","5">>, <<"h","i","g","h">>, <<"0",".">>, <<"1",".","0","0">>},
                             MaxWords) :
          Apply([name |-> "analyze_task_priority", title |-> <<"B","u","y"," ","m","i","l","k">>,
                 description |-> <<"p","l","e","a","s","e"," ","d","o"," ","t","h","i","s"," ","a","s","a","p">>, r |-> Returned(text)],
                analyze_task_priority(<<"B","u","y"," ","m","i","l","k">>, <<"p","l","e","a","s","e"," ","d","o"," ","t","h","i","s"," ","a","s","a","p">>, Returned(text)))

EvalUrgency ==
    /\ pc = "idle"
    /\ \E text \in Sentences({<<"U","R","G","E","N","T","!","!","!">>, <<"a","s","a","p">>, <<"d","e","a","d","l","i","n","e">>, <<"t","o","d","a","y">>,
                              <<"t","o","m","o","r","r","o","w">>, <<"!">>, <<"l","u","n","c","h">>}, MaxWords) :
          Apply([name |-> "_calculate_urgency", text |-> text], _calculate_urgency(text))

EvalSentiment ==
    /\ pc = "idle"
    /\ \E text \in Sentences({<<"g","o","o","d">>, <<"L","O","V","E">>, <<"d","i","s","l","i","k","e">>, <<"b","a","d">>, <<"u","r","g","e","n","t">>,
                              <<"l","u","n","c","h">>}, MaxWords) :
          Apply([name |-> "analyze_sentiment", text |-> text], analyze_sentiment(text))

\* ten distinct keywords
TenKeywords == <<"a","l","p","h","a"," ","b","e","t","a"," ","g","a","m","m","a"," ","d","e","l","t","a"," ","e",
    "p","s","i","l","o","n"," ","e","t","a"," ","t","h","e","t","a"," ","i","o","t","a"," ","k","a",
    "p","p","a"," ","l","a","m","b","d","a"," ">>

EvalKeywords ==
    /\ pc = "idle"
    /\ \E start \in {<< >>, TenKeywords},
          end \in Sentences({<<"t","h","e">>, <<"R","e","-","p","l","a","n","!">>, <<"A","l","p","h","a">>, <<"z","e","t","a">>, <<"o","k">>, <<"o","m","e","g","a">>},
                            MaxWords) :
          Apply([name |-> "extract_keywords", text |-> start \o end],
                extract_keywords(start \o end))

\* process_context_entry, lines 84-123, for each thing the gateway may do
EvalProcessContextEntry ==
    /\ pc = "idle"
    /\ \E content \in Contents \cup { TenKeywords \o end : end \in {<<"z","e","t","a">>, <<"z","e","t","a"," ","o","m","e","g","a">>} },
          r \in {Returned(<<"0",".","7">>), Returned(<<"{","\"","t","o","p","i","c","\"",":"," ","\"","l","u","n","c","h","\"","}">>)} :
          Apply([name |-> "process_context_entry", content |-> content,
                 source_type |-> <<"E","M","A","I","L">>, r |-> r],
                process_context_entry(content, <<"E","M","A","I","L">>, r))

EvalRelevantContexts ==
    /\ pc = "idle"
    /\ \E task_content \in {<<"m","e","e","t","i","n","g"," ","p","r","o","j","e","c","t">>, <<"P","r","o","j","e","c","t","!">>, <<"t","o"," ","d","o"," ","i","t">>,
                            <<"L","u","n","c","h"," ","m","e","e","t","i","n","g",","," ","p","r","o","j","e","c","t">>, TenKeywords \o <<"p","r","o","j","e","c","t">>},
          context_entries \in SeqsUpTo(
              { [content |-> <<"l","u","n","c","h"," ","a","f","t","e","r"," ","t","h","e"," ","m","e","e","t","i","n","g">>,
                 keywords |-> <<<<"m","e","e","t","i","n","g">>, <<"l","u","n","c","h">>>>],
                [content |-> <<"p","r","o","j","e","c","t"," ","k","i","c","k","o","f","f">>,
                 keywords |-> <<<<"p","r","o","j","e","c","t">>, <<"k","i","c","k","o","f","f">>>>],
                [content |-> <<"p","a","y"," ","t","h","e"," ","r","e","n","t">>] }, MaxEntries) :
          Apply([name |-> "find_relevant_contexts", task_content |-> task_content,
                 context_entries |-> context_entries],
                find_relevant_contexts(task_content, context_entries))

PureNext ==
    \/ EvalSuggestTags
    \/ EvalFallbackTags
    \/ EvalPriority
    \/ EvalUrgency
    \/ EvalSentiment
    \/ EvalKeywords
    \/ EvalProcessContextEntry
    \/ EvalRelevantContexts
    \/ Return

PureSpec == PureInit /\ [][PureNext]_vars

\* the caller of process_context_entry has the returned value; the call is
\* remembered for the one that follows
ReturnInsights ==
    /\ pc = "done"
    /\ pc' = "idle"
    /\ op' = NoOp
    /\ ret' = NoReturn
    /\ prev' = [name |-> op.name, content |-> op.content,
                source_type |-> op.source_type, r |-> op.r, value |-> ret.value]
    /\ UNCHANGED <<openai_key, now, prompt, attempts, inflight, result, hash_seed, frame, db>>

\* process_context_entry called again and again in one process
RepeatNext ==
    \/ EvalProcessContextEntry
    \/ ReturnInsights

RepeatSpec == PureInit /\ [][RepeatNext]_vars
---------------------------------------------------------------------------
(* tasks/models.py and tasks/serializers.py: saving and creating a task    *)

\* Task.save clearing completed_at of a task that is not COMPLETED
save_clearing(task) ==
    IF task.status = "COMPLETED"
    THEN (IF task.completed_at = << >> THEN [task EXCEPT !.completed_at = now] ELSE task)
    ELSE [task EXCEPT !.completed_at = << >>]

\* Task.save, tasks/models.py lines 53-56: the row that is stored
save(task) ==
    IF task.status = "COMPLETED" /\ task.completed_at = << >>
    THEN [task EXCEPT !.completed_at = now] ELSE task

\* the length below which create replaces the description, line 109
SHORT_DESCRIPTION == 50

\* f"{x:.2f}" of a score x that has at most two decimals, as the scores of
\* the analyses of CreateSpec have
Format2f(x) ==
    LET hundredths == (x.num * 100) \div x.den
    IN  IntToStr(hundredths \div 100) \o <<".">> \o ZeroPad(IntToStr(hundredths % 100), 2)

\* created_task replacing the description whatever its length
created_task_always_enhanced(validated_data, analysis) ==
    LET task == [id |-> 0,
                 title |-> validated_data.title,
                 description |-> validated_data.description,
                 original_description |-> validated_data.description,
                 category |-> validated_data.category,
                 ai_priority_score |-> Decimal(5, 10),
                 ai_suggested_deadline |-> << >>,
                 ai_suggested_tags |-> << >>,
                 context_based_notes |-> << >>,
                 status |-> "TODO",
                 completed_at |-> << >>]
    IN  IF ~validated_data.use_ai_enhancement THEN task
        ELSE [task EXCEPT
                !.ai_priority_score = analysis.priority_score,
                !.ai_suggested_deadline = analysis.suggested_deadline,
                !.ai_suggested_tags = Join(analysis.suggested_tags, <<",">>),
                !.description = analysis.enhanced_description,
                !.context_based_notes =
                    <<"A","I"," ","A","n","a","l","y","s","i","s",":"," ","P","r","i","o","r","i","t","y"," ">> \o Format2f(analysis.priority_score)
                        \o <<","," ","S","u","g","g","e","s","t","e","d"," ","d","e","a","d","l","i","n","e",":"," ">>
                        \o StrftimeYmd(analysis.suggested_deadline),
                !.category = IF analysis.suggested_category # << >>
                             THEN analysis.suggested_category ELSE @]

\* the task TaskCreateSerializer.create has built when it calls task.save,
\* tasks/serializers.py lines 68-122: Task(**validated_data) with the defaults
\* of tasks/models.py lines 32-47, and the suggestions of the analysis when
\* use_ai_enhancement is set
created_task(validated_data, analysis) ==
    LET task == [id |-> 0,
                 title |-> validated_data.title,
                 description |-> validated_data.description,
                 original_description |-> validated_data.description,
                 category |-> validated_data.category,
                 ai_priority_score |-> Decimal(5, 10),
                 ai_suggested_deadline |-> << >>,
                 ai_suggested_tags |-> << >>,
                 context_based_notes |-> << >>,
                 status |-> "TODO",
                 completed_at |-> << >>]
    IN  IF ~validated_data.use_ai_enhancement THEN task
        ELSE [task EXCEPT
                !.ai_priority_score = analysis.priority_score,
                !.ai_suggested_deadline = analysis.suggested_deadline,
                !.ai_suggested_tags = Join(analysis.suggested_tags, <<",">>),
                !.description = IF Len(@) < SHORT_DESCRIPTION
                                THEN analysis.enhanced_description ELSE @,
                !.context_based_notes =
                    <<"A","I"," ","A","n","a","l","y","s","i","s",":"," ","P","r","i","o","r","i","t","y"," ">> \o Format2f(analysis.priority_score)
                        \o <<","," ","S","u","g","g","e","s","t","e","d"," ","d","e","a","d","l","i","n","e",":"," ">>
                        \o StrftimeYmd(analysis.suggested_deadline),
                !.category = IF analysis.suggested_category # << >>
                             THEN analysis.suggested_category ELSE @]

\* the end of TaskCreateSerializer.create, lines 116-125: the suggested
\* category is created when there is none of its name, the task is saved as a
\* new row and returned
FinishCreate(validated_data, analysis) ==
    LET task == created_task(validated_data, analysis)
        suggested == IF validated_data.use_ai_enhancement
                     THEN analysis.suggested_category ELSE << >>
        categories == IF suggested = << >>
                         \/ \E i \in 1..Len(db.categories) : db.categories[i] = suggested
                      THEN db.categories
                      ELSE Append(db.categories, suggested)
        saved == [save(task) EXCEPT !.id = Len(db.tasks) + 1]
    IN  /\ pc' = "done"
        /\ op' = [name |-> "create", validated_data |-> validated_data]
        /\ ret' = [raised |-> FALSE, value |-> saved]
        /\ db' = [db EXCEPT !.tasks = Append(@, saved), !.categories = categories]

\* the data TaskCreateSerializer.create may be given: a description that is
\* empty, of 49 or of 50 characters, with or without a category (with AI
\* enhancement the empty description, and no other, comes with a category)
Submissions ==
    { s \in [title : {<<"P","l","a","n"," ","m","e","e","t","i","n","g">>},
             description : {<< >>,
                            <<"P","l","a","n"," ","t","h","e"," ","p","r","o","j","e","c","t"," ","s","y","n","c"," ","m","e",
    "e","t","i","n","g"," ","w","i","t","h"," ","t","h","e"," ","w","h","o","l","e"," ","t","e","a",
    "m">>,
                            <<"P","l","a","n"," ","t","h","e"," ","p","r","o","j","e","c","t"," ","s","y","n","c"," ","m","e",
    "e","t","i","n","g"," ","w","i","t","h"," ","t","h","e"," ","w","h","o","l","e"," ","t","e","a",
    "m",".">>},
             category : {<< >>, <<"W","o","r","k">>},
             use_ai_enhancement : BOOLEAN] :
        s.use_ai_enhancement => (s.category # << >> <=> s.description = << >>) }

\* TaskCreateSerializer.create, tasks/serializers.py lines 67-101: without
\* use_ai_enhancement the task is saved at once, with it up to the first
\* analysis of get_comprehensive_task_analysis
Create ==
    /\ pc = "idle"
    /\ \E validated_data \in Submissions :
          IF validated_data.use_ai_enhancement
          THEN StartCall(1, NewFrame(0, validated_data.title, validated_data.description,
                                     context_data(db.contexts), db.categories)
                            @@ [validated_data |-> validated_data])
          ELSE /\ FinishCreate(validated_data, NoOp)
               /\ UNCHANGED <<openai_key, now, prompt, attempts, inflight, result,
                              hash_seed, prev, frame>>

\* an analysis of get_comprehensive_task_analysis has returned its value to
\* create's call: the next analysis is called, or after the last the dict is
\* returned and create applies it (lines 103-125)
NextCreateAnalysis ==
    /\ pc = "done"
    /\ frame.active
    /\ frame.step <= 5
    /\ LET results == Append(frame.results, ret.value)
           analysis == [priority_score |-> results[1],
                        suggested_deadline |-> results[2],
                        suggested_category |-> results[3],
                        suggested_tags |-> results[4],
                        enhanced_description |-> results[5],
                        relevant_contexts |-> frame.relevant_contexts,
                        analysis_timestamp |-> now]
       IN  IF frame.step < 5
           THEN StartCall(frame.step + 1, [frame EXCEPT !.results = results])
           ELSE /\ FinishCreate(frame.validated_data, analysis)
                /\ frame' = [frame EXCEPT !.step = 6, !.results = results,
                                          !.analysis = analysis]
                /\ UNCHANGED <<openai_key, now, prompt, attempts, inflight, result,
                               hash_seed, prev>>

\* one create request on a database of tasks and context entries
CreateNext ==
    \/ Create
    \/ LmStudioResponds
    \/ OpenAIResponds
    \/ NextCreateAnalysis

CreateSpec == AnalysisInit /\ [][CreateNext]_vars

---------------------------------------------------------------------------
(* tasks/models.py: saving a task after a change of its status             *)

\* the last day of the calendar on which a task is saved
LastDay == 4

\* STATUS_CHOICES, tasks/models.py lines 25-30
STATUS_CHOICES == {"TODO", "IN_PROGRESS", "COMPLETED", "CANCELLED"}

\* two saved tasks, neither completed
SaveInit ==
    /\ openai_key = FALSE
    /\ now = <<2026, 11, 1>>
    /\ pc = "idle"
    /\ op = NoOp
    /\ prompt = << >>
    /\ attempts = << >>
    /\ inflight = NoRequest
    /\ result = NoResult
    /\ ret = NoReturn
    /\ hash_seed = 0
    /\ prev = NoOp
    /\ frame = NoFrame
    /\ db = [NoTables EXCEPT !.tasks = TaskRows]

\* a day passes: datetime.now() of Task.save, line 55, is a day later
Tick ==
    /\ now[3] < LastDay
    /\ now' = NextDay(now)
    /\ UNCHANGED <<openai_key, pc, op, prompt, attempts, inflight, result, ret,
                   hash_seed, prev, frame, db>>

\* the status of a task is set and the task is saved, Task.save lines 53-56
SaveTask ==
    \E pk \in 1..Len(db.tasks), status \in STATUS_CHOICES :
        /\ db' = [db EXCEPT !.tasks[pk] = save([@ EXCEPT !.status = status])]
        /\ op' = [name |-> "save", pk |-> pk, status |-> status]
        /\ UNCHANGED <<openai_key, now, pc, prompt, attempts, inflight, result, ret,
                       hash_seed, prev, frame>>

SaveNext ==
    \/ Tick
    \/ SaveTask

SaveSpec == SaveInit /\ [][SaveNext]_vars

---------------------------------------------------------------------------
(* Properties                                                              *)

\* the first call of the primary endpoint ended in the local fallback
PrimaryFailed == attempts # << >> /\ attempts[1].outcome = "failed"

\* the secondary provider was called
SecondaryAttempted == \E k \in 1..Len(attempts) : attempts[k].provider = "openai"

\* analyze_with_ai returned to an operation of the given name
Returned_to(name) == pc = "done" /\ op.name = name

\* C1: analyze_with_ai never raises to its caller: whatever the outcome of the
\* primary call (exception, timeout, non-200 status, malformed 200 body) and of
\* the secondary call, with or without a secondary credential, it returns a
\* string, and that string is what a direct caller receives.
C1_NeverRaises ==
    pc = "done" =>
        /\ ~result.raised
        /\ op.name = "analyze_with_ai" => (~ret.raised /\ ret.value = result.text)

\* C1 witness: a direct call in which the primary call failed, the secondary
\* call raised and the primary call failed again, and a string came back
C1_Witness ==
    /\ Returned_to("analyze_with_ai")
    /\ Len(attempts) = 3
    /\ \A k \in 1..3 : attempts[k].outcome = "failed"
    /\ ~ret.raised
    /\ ret.value = SENTINEL

\* the rule table of the local fallback as the specification states it
C2_Rule(p) ==
    IF Contains(Lower(p), <<"p","r","i","o","r","i","t","y">>) THEN <<"0",".","7">>
    ELSE IF Contains(Lower(p), <<"d","e","a","d","l","i","n","e">>) THEN StrftimeYmd(AddDays(now, 3))
    ELSE IF Contains(Lower(p), <<"c","a","t","e","g","o","r","y">>) THEN <<"G","e","n","e","r","a","l">>
    ELSE IF Contains(Lower(p), <<"t","a","g","s">>) THEN <<"t","a","s","k",","," ","g","e","n","e","r","a","l">>
    ELSE <<"A","n","a","l","y","s","i","s"," ","u","n","a","v","a","i","l","a","b","l","e"," ","-"," ","u","s","i","n","g"," ","d","e","f","a","u","l","t","s">>

\* C2: when the primary endpoint fails and no secondary credential is
\* configured, analyze_with_ai returns the local fallback of the first matching
\* rule on the lower-cased prompt, in the order priority, deadline, category,
\* tags, sentinel; a prompt with both "priority" and "deadline" yields "0.7".
C2_FallbackOrder ==
    (pc = "done" /\ ~openai_key /\ PrimaryFailed) =>
        /\ result.text = C2_Rule(prompt)
        /\ (Contains(Lower(prompt), <<"p","r","i","o","r","i","t","y">>) /\ Contains(Lower(prompt), <<"d","e","a","d","l","i","n","e">>))
               => result.text = <<"0",".","7">>

\* C2 witness: a failed primary call without a credential on a prompt that
\* holds both "priority" and "deadline"
C2_Witness ==
    /\ Returned_to("analyze_with_ai")
    /\ ~openai_key
    /\ PrimaryFailed
    /\ Contains(Lower(prompt), <<"p","r","i","o","r","i","t","y">>)
    /\ Contains(Lower(prompt), <<"d","e","a","d","l","i","n","e">>)
    /\ result.text = <<"0",".","7">>

\* C3: the secondary provider is attempted only if the primary call's result
\* equals the unavailability sentinel and a secondary credential is
\* configured; otherwise it is never called and the primary result is returned
\* unchanged.
C3_SecondaryOnlyOnSentinel ==
    /\ SecondaryAttempted => (attempts[1].text = SENTINEL /\ openai_key)
    /\ (pc = "done" /\ ~(attempts[1].text = SENTINEL /\ openai_key))
           => (~SecondaryAttempted /\ result.text = attempts[1].text)

\* C4: whenever the primary call fails and a secondary credential is
\* configured, the secondary provider is attempted before a local default is
\* returned to the caller, for every prompt.
C4_SecondaryBeforeLocalDefault ==
    (pc = "done" /\ openai_key /\ PrimaryFailed) => SecondaryAttempted

\* C5: every external call analyze_with_ai makes is bounded by an explicit
\* timeout, and the chain makes at most three provider attempts: primary,
\* secondary, and primary once more when the secondary raises.
C5_ExplicitTimeouts ==
    /\ inflight.provider # "none" => (inflight.has_timeout /\ inflight.timeout > 0)
    /\ Len(attempts) <= 3
    /\ \A k \in 1..Len(attempts) :
           attempts[k].provider = (IF k = 2 THEN "openai" ELSE "lm_studio")

\* C6: with the AI service unavailable (primary unreachable, no secondary
\* credential) analyze_task_priority returns the keyword tier of the task
\* text: 0.9, 0.7, 0.6 or 0.5.
C6_PriorityFallbackTier ==
    (Returned_to("analyze_task_priority") /\ ~openai_key /\ PrimaryFailed) =>
        ret.value = _calculate_fallback_priority(op.title, op.description)

\* C7: with the AI service unavailable (primary unreachable, no secondary
\* credential) suggest_deadline returns now plus the keyword offset of the
\* description: 1, 2, 7 or 3 days.
C7_DeadlineFallbackOffset ==
    (Returned_to("suggest_deadline") /\ ~openai_key /\ PrimaryFailed) =>
        ret.value = AddDays(now, fallback_deadline_days(op.description))

\* the gateway returned text in which the operation finds no number
Unparsable ==
    /\ pc = "done"
    /\ ~result.raised
    /\ \/ op.name = "analyze_task_priority" /\ FindPriorityNumbers(result.text, 1) = << >>
       \/ op.name = "suggest_deadline" /\ FindIntegers(result.text, 1) = << >>

C9_EnhanceFallback ==
    (Returned_to("enhance_task_description") /\ ~openai_key /\ PrimaryFailed) =>
        /\ ret.value = (IF op.description # << >> THEN op.description
                        ELSE <<"C","o","m","p","l","e","t","e"," ","t","h","e"," ","t","a","s","k",":"," ">> \o op.title)
        /\ ret.value # SENTINEL

\* C10: process_context_entry always returns an insight record whose
\* ai_analysis is an object parsed from the AI response, a raw-text record or
\* an error record, also when the AI service is unavailable.
C10_AiAnalysisShape ==
    Returned_to("process_context_entry") =>
        /\ ~ret.raised
        /\ \/ ret.value.ai_analysis.tag \in {"raw_response", "error"}
           \/ /\ ret.value.ai_analysis.tag = "parsed"
              /\ ret.value.ai_analysis.kind = "object"


---------------------------------------------------------------------------
(* Properties of the text functions                                        *)

\* the call of the function `name` has returned
Evaluated(name) == pc = "done" /\ op.name = name

\* C11: suggest_tags returns at most 5 tags whatever text the gateway answers
\* with, and _suggest_fallback_tags returns at least 1 and at most 3 tags for
\* any title and description.
C11_TagCounts ==
    /\ (Evaluated("suggest_tags") /\ ~op.r.raised) => Len(ret.value) <= 5
    /\ Evaluated("_suggest_fallback_tags") => (1 <= Len(ret.value) /\ Len(ret.value) <= 3)

\* the gateway's answer holds six comma-separated pieces and five tags are
\* returned
C11_Witness ==
    /\ Evaluated("suggest_tags")
    /\ ~op.r.raised
    /\ CountChar(op.r.text, ",") = 5
    /\ Len(ret.value) = 5

\* the positions of text at which 0.<digits> or 1.0 begins
PriorityMatches(text) ==
    { i \in 1..(Len(text) - 2) :
        /\ text[i + 1] = "."
        /\ \/ text[i] = "0" /\ text[i + 2] \in ToSet(Digits)
           \/ text[i] = "1" /\ text[i + 2] = "0" }

\* the number written by the match that begins at text[i], as a fraction
PriorityMatchValue(text, i) ==
    IF text[i] = "1" THEN [num |-> 1, den |-> 1]
    ELSE LET last == CHOOSE j \in (i + 2)..Len(text) :
                        /\ \A k \in (i + 2)..j : text[k] \in ToSet(Digits)
                        /\ j = Len(text) \/ text[j + 1] \notin ToSet(Digits)
         IN  [num |-> StrToInt(SubSeq(text, i + 2, last)), den |-> Pow10(last - i - 1)]

\* C12: for every text the gateway answers with, analyze_task_priority returns
\* a score between 0.0 and 1.0: the number of the first substring matching
\* 0.<digits> or 1.0 when there is one, the default 0.5 otherwise.
C12_PriorityInRange ==
    (Evaluated("analyze_task_priority") /\ ~op.r.raised) =>
        LET starts == PriorityMatches(op.r.text)
            first == CHOOSE i \in starts : \A j \in starts : i <= j
            expected == IF starts = {} THEN [num |-> 1, den |-> 2]
                        ELSE PriorityMatchValue(op.r.text, first)
        IN  /\ 0 <= ret.value.num
            /\ ret.value.num <= ret.value.den
            /\ ret.value.num * expected.den = expected.num * ret.value.den

\* the answer holds two different numbers and the first one, which follows
\* another digit, is returned
C12_Witness ==
    /\ Evaluated("analyze_task_priority")
    /\ ~op.r.raised
    /\ Cardinality(PriorityMatches(op.r.text)) = 2
    /\ 1 \notin PriorityMatches(op.r.text)
    /\ ret.value = [num |-> 5, den |-> 10]
    /\ Contains(op.r.text, <<"0", ".", "2", "5">>)

\* C13: _calculate_urgency returns min(10, 1 + 4 for a high-urgency word + 2
\* for a medium-urgency word + (3 for today/now/tonight, else 2 for
\* tomorrow/this week, else 0) + min(number of '!', 2)), an integer from 1 to
\* 10; the 3 and the 2 are never both added; "URGENT!!! today" gives 10.
C13_UrgencyFormula ==
    Evaluated("_calculate_urgency") =>
        LET text == Lower(op.text)
            Has(word) == Contains(text, word)
            high == Has(<<"u","r","g","e","n","t">>) \/ Has(<<"a","s","a","p">>) \/ Has(<<"i","m","m","e","d","i","a","t","e","l","y">>)
                    \/ Has(<<"e","m","e","r","g","e","n","c","y">>)
            medium == Has(<<"i","m","p","o","r","t","a","n","t">>) \/ Has(<<"p","r","i","o","r","i","t","y">>) \/ Has(<<"d","e","a","d","l","i","n","e">>)
            near == Has(<<"t","o","d","a","y">>) \/ Has(<<"n","o","w">>) \/ Has(<<"t","o","n","i","g","h","t">>)
            far == Has(<<"t","o","m","o","r","r","o","w">>) \/ Has(<<"t","h","i","s"," ","w","e","e","k">>)
            marks == Cardinality({ i \in 1..Len(op.text) : op.text[i] = "!" })
            sum == 1 + (IF high THEN 4 ELSE 0) + (IF medium THEN 2 ELSE 0)
                     + (IF near THEN 3 ELSE IF far THEN 2 ELSE 0)
                     + (IF marks < 2 THEN marks ELSE 2)
        IN  /\ ret.value = (IF sum < 10 THEN sum ELSE 10)
            /\ ret.value \in 1..10
            /\ op.text = <<"U","R","G","E","N","T","!","!","!"," ","t","o","d","a","y">> => ret.value = 10

\* a text naming both today and tomorrow gets the 3 only
C13_Witness ==
    /\ Evaluated("_calculate_urgency")
    /\ op.text = <<"t","o","d","a","y"," ","t","o","m","o","r","r","o","w"," ","!">>
    /\ ret.value = 5

\* C14: analyze_sentiment returns a value between 0 and 1 equal to
\* positive / (positive + negative), where positive and negative count the
\* listed words that occur as substrings of the lower-cased text, and exactly
\* 0.5 when both counts are 0.
C14_SentimentRatio ==
    Evaluated("analyze_sentiment") =>
        LET text == Lower(op.text)
            positive == Cardinality({ w \in ToSet(POSITIVE_WORDS) : Contains(text, w) })
            negative == Cardinality({ w \in ToSet(NEGATIVE_WORDS) : Contains(text, w) })
        IN  /\ 0 <= ret.value.num
            /\ ret.value.num <= ret.value.den
            /\ (positive + negative = 0) => ret.value = [num |-> 1, den |-> 2]
            /\ (positive + negative > 0) =>
                  ret.value.num * (positive + negative) = positive * ret.value.den

\* "dislike" counts as the positive "like" and as the negative "dislike"
C14_Witness ==
    /\ Evaluated("analyze_sentiment")
    /\ op.text = <<"d","i","s","l","i","k","e">>
    /\ ret.value = [num |-> 1, den |-> 2]

\* the tokens of the lower-cased, punctuation-stripped text: its maximal runs
\* of letters, digits and underscores
Tokens(text) ==
    LET lower == Lower(text)
        InWord(i) == lower[i] \in ToSet(LowerChars) \cup ToSet(Digits) \cup {"_"}
        starts == { i \in 1..Len(lower) : InWord(i) /\ (i = 1 \/ ~InWord(i - 1)) }
        End(i) == CHOOSE j \in i..Len(lower) :
                    /\ \A k \in i..j : InWord(k)
                    /\ j = Len(lower) \/ ~InWord(j + 1)
    IN  { SubSeq(lower, i, End(i)) : i \in starts }

\* the candidate keywords of text: its tokens longer than 2 that are not stop
\* words
Candidates(text) == { word \in Tokens(text) : Len(word) > 2 /\ word \notin STOP_WORDS }

\* C15: extract_keywords returns at most 10 distinct keywords, each a token of
\* the lower-cased, punctuation-stripped text that is longer than 2 and not a
\* stop word; when there are at most 10 distinct candidates it returns
\* exactly the candidates.
C15_KeywordsAreCandidates ==
    Evaluated("extract_keywords") =>
        LET candidates == Candidates(op.text)
        IN  /\ Cardinality(ret.value) <= 10
            /\ ret.value \subseteq candidates
            /\ Cardinality(candidates) <= 10 => ret.value = candidates

\* a text with twelve candidates, of which ten are returned
C15_Witness ==
    /\ Evaluated("extract_keywords")
    /\ Cardinality(Candidates(op.text)) = 12
    /\ Cardinality(ret.value) = 10

\* the keywords a context entry shares with the task keywords
Shared(task_keywords, entry) ==
    IF "keywords" \in DOMAIN entry
    THEN { k \in task_keywords : \E i \in 1..Len(entry.keywords) : entry.keywords[i] = k }
    ELSE {}

\* max(|task keywords|, 1)
TaskSize(task_keywords) == IF task_keywords = {} THEN 1 ELSE Cardinality(task_keywords)

\* every returned match is scored |task keywords /\ entry keywords| /
\* max(|task keywords|, 1), its score is in (0, 1] and above 0.1, and its
\* matching keywords are that non-empty intersection; without task keywords
\* nothing is returned
C16_MatchesScored ==
    LET task_keywords == extract_keywords(op.task_content)
    IN  /\ \A i \in 1..Len(ret.value) :
              LET match == ret.value[i]
                  score == match.relevance_score
                  shared == Shared(task_keywords, match.context)
              IN  /\ \E j \in 1..Len(op.context_entries) :
                        op.context_entries[j] = match.context
                  /\ score.num * TaskSize(task_keywords) = Cardinality(shared) * score.den
                  /\ 0 < score.num
                  /\ score.num <= score.den
                  /\ score.den < 10 * score.num
                  /\ match.matching_keywords = shared
                  /\ shared # {}
        /\ task_keywords = {} => ret.value = << >>

\* entry is returned with the score 0.5
ReturnedWithHalf(entry) ==
    \E i \in 1..Len(ret.value) :
        /\ ret.value[i].context = entry
        /\ ret.value[i].relevance_score.num * 2 = ret.value[i].relevance_score.den

\* the entries of the call that share 1 of the 2 keywords of its task
SharingOneOfTwo ==
    LET task_keywords == extract_keywords(op.task_content)
    IN  IF Cardinality(task_keywords) # 2 THEN {}
        ELSE { op.context_entries[j] : j \in { k \in 1..Len(op.context_entries) :
                  Cardinality(Shared(task_keywords, op.context_entries[k])) = 1 } }

\* C16 as stated: find_relevant_contexts scores each entry as
\* |task keywords /\ entry keywords| / max(|task keywords|, 1), a returned
\* match has a score in (0, 1] above 0.1 and the non-empty intersection as
\* matching keywords, an entry without overlap is never returned, no task
\* keywords give an empty result, and an entry sharing 1 of 2 task keywords is
\* returned with score 0.5.
C16_HalfAlwaysReturned ==
    Evaluated("find_relevant_contexts") =>
        /\ C16_MatchesScored
        /\ \A entry \in SharingOneOfTwo : ReturnedWithHalf(entry)

\* C16, amended: as stated, but an entry sharing 1 of 2 task keywords is
\* returned with score 0.5 unless five entries that score at least 0.5 are
\* returned in its place.
C16_HalfReturnedUnlessCrowdedOut ==
    Evaluated("find_relevant_contexts") =>
        /\ C16_MatchesScored
        /\ \A entry \in SharingOneOfTwo :
              \/ ReturnedWithHalf(entry)
              \/ /\ Len(ret.value) = 5
                 /\ \A i \in 1..5 : ret.value[i].relevance_score.den
                                        <= 2 * ret.value[i].relevance_score.num

\* two entries each share 1 of the 2 task keywords; five entries are returned
\* with score 0.5 and the sixth, which also scores 0.5, is not
C16_Witness ==
    /\ Evaluated("find_relevant_contexts")
    /\ Len(op.context_entries) = 6
    /\ Cardinality(SharingOneOfTwo) = 2
    /\ Len(ret.value) = 5
    /\ \E entry \in SharingOneOfTwo : ReturnedWithHalf(entry)
    /\ \E entry \in SharingOneOfTwo : ~ReturnedWithHalf(entry)

\* how many task keywords each entry of the call shares, and whether the
\* entry qualifies: its score |shared| / max(|task keywords|, 1) is above 0.1
Ranking ==
    LET task_keywords == extract_keywords(op.task_content)
    IN  [j \in 1..Len(op.context_entries) |->
            LET shared == Cardinality(Shared(task_keywords, op.context_entries[j]))
            IN  [entry |-> op.context_entries[j],
                 shared |-> shared,
                 qualifies |-> TaskSize(task_keywords) < 10 * shared]]

\* C17: find_relevant_contexts returns at most 5 matches, sorted by
\* non-increasing score, matches of equal score in the order of the input, and
\* they are the top of the ranking: every qualifying entry left out scores no
\* more than the lowest returned.
C17_TopFiveStableOrder ==
    Evaluated("find_relevant_contexts") =>
        LET ranking == Ranking
            qualifying == SelectSeq(ranking, LAMBDA e : e.qualifies)
            returned == ret.value
            size == TaskSize(extract_keywords(op.task_content))
            lowest == returned[Len(returned)].relevance_score
            \* the returned matches that score as entry e does, and the
            \* qualifying entries that share as many keywords as e
            Tied(e) == SelectSeq(returned, LAMBDA m :
                          \E j \in 1..Len(ranking) :
                              ranking[j].entry = m.context /\ ranking[j].shared = e.shared)
            Peers(e) == SelectSeq(qualifying, LAMBDA x : x.shared = e.shared)
        IN  /\ Len(returned) <= 5
            /\ Len(returned) = (IF Len(qualifying) < 5 THEN Len(qualifying) ELSE 5)
            /\ \A i, j \in 1..Len(returned) :
                  i < j => ~Less(returned[i].relevance_score, returned[j].relevance_score)
            /\ \A k \in 1..Len(qualifying) :
                  LET e == qualifying[k]
                      tied == Tied(e)
                      peers == Peers(e)
                  IN  /\ Len(tied) <= Len(peers)
                      /\ \A i \in 1..Len(tied) : tied[i].context = peers[i].entry
                      /\ (Len(tied) < Len(peers)) =>
                            /\ returned # << >>
                            /\ e.shared * lowest.den <= lowest.num * size

\* six entries qualify with different scores, the highest-scoring one comes
\* last in the input and first in the result, and one entry is left out
C17_Witness ==
    /\ Evaluated("find_relevant_contexts")
    /\ Len(SelectSeq(Ranking, LAMBDA e : e.qualifies)) = 6
    /\ Len(ret.value) = 5
    /\ ret.value[1].context = op.context_entries[6]
    /\ ret.value[1].context # ret.value[2].context
    /\ Less(ret.value[2].relevance_score, ret.value[1].relevance_score)

Ranked(i) == frame.calls[i].name = "find_relevant_contexts"

\* the prompt get_comprehensive_task_analysis's arguments other than the
\* ranking give the suggestion operation called as calls[i]
UnrankedPrompt(i) ==
    LET t == frame.task_title
        d == frame.task_description
        name == frame.calls[i].name
    IN  CASE name = "analyze_task_priority" -> priority_prompt(t, d, frame.context_entries)
          [] name = "suggest_deadline" -> deadline_prompt(t, d, frame.current_workload)
          [] name = "suggest_category" -> category_prompt(t, d, frame.existing_categories)
          [] name = "suggest_tags" -> tags_prompt(t, d)

\* C18: get_comprehensive_task_analysis finds the relevant contexts before any
\* suggestion operation and only when context entries are given (else the list
\* is empty); relevant_contexts of the result is that ranking;
\* enhance_task_description's prompt shows the first 2 entries of the ranking
\* and no other; the prompts of the other four operations are those of the
\* arguments without the ranking.
C18_RankingOnlyFeedsEnhance ==
    frame.active =>
        /\ \A i \in 1..Len(frame.calls) :
              Ranked(i) <=> (i = 1 /\ frame.context_entries # << >>)
        /\ frame.context_entries = << >> => frame.relevant_contexts = << >>
        /\ frame.step = 6 => frame.analysis.relevant_contexts = frame.relevant_contexts
        /\ \A i \in 1..Len(frame.calls) :
              IF Ranked(i) THEN TRUE
              ELSE IF frame.calls[i].name = "enhance_task_description"
              THEN \A k \in 1..Len(frame.relevant_contexts) :
                      Contains(frame.calls[i].prompt,
                               frame.relevant_contexts[k].context.content) <=> k <= 2
              ELSE frame.calls[i].prompt = UnrankedPrompt(i)

\* an analysis is returned whose ranking has three entries, in another order
\* than the context entries
C18_Witness ==
    /\ frame.active
    /\ frame.step = 6
    /\ Len(frame.analysis.relevant_contexts) = 3
    /\ frame.analysis.relevant_contexts[1].context = frame.context_entries[3]
    /\ Len(frame.calls) = 6

\* the context entry of the table that a match of the ranking was made from
EntryOf(rel_ctx) ==
    { j \in 1..Len(db.contexts) : db.contexts[j].content = rel_ctx.context.content }

\* C20: when reanalyze has completed with at least one relevant context, each
\* relevant context whose entry exists has a TaskContextLink of the task with
\* the match's score, no pair of task and entry has two links, and the
\* serialized task is returned.
C20_RelevantContextsLinked ==
    (pc = "done" /\ frame.active /\ frame.step = 6
        /\ frame.analysis.relevant_contexts # << >>) =>
        /\ \A k \in 1..Len(frame.analysis.relevant_contexts) :
              \A j \in EntryOf(frame.analysis.relevant_contexts[k]) :
                 \E l \in db.links :
                    /\ l.task = frame.pk
                    /\ l.context_entry = db.contexts[j].id
                    /\ l.relevance_score = frame.analysis.relevant_contexts[k].relevance_score
        /\ \A l1, l2 \in db.links :
              (l1.task = l2.task /\ l1.context_entry = l2.context_entry) => l1 = l2
        /\ ~ret.raised
        /\ ret.value = TaskSerializer(db.tasks[frame.pk], db.links)

\* TaskCreateSerializer.create has returned the task it saved
Created == pc = "done" /\ op.name = "create"

\* C21: TaskCreateSerializer.create stores the submitted description unchanged
\* in original_description; with AI enhancement the description is replaced by
\* the enhanced description only if the submitted one is shorter than 50
\* characters; without it ai_priority_score, ai_suggested_deadline,
\* ai_suggested_tags, category, context_based_notes and description keep the
\* submitted or default value.
C21_CreateKeepsOriginal ==
    Created =>
        LET submitted == op.validated_data
            task == ret.value
        IN  /\ db.tasks[Len(db.tasks)] = task
            /\ task.original_description = submitted.description
            /\ IF submitted.use_ai_enhancement
               THEN /\ task.description # submitted.description
                          => Len(submitted.description) < 50
                    /\ task.description \in {submitted.description,
                                             frame.analysis.enhanced_description}
               ELSE /\ task.ai_priority_score = [num |-> 5, den |-> 10]
                    /\ task.ai_suggested_deadline = << >>
                    /\ task.ai_suggested_tags = << >>
                    /\ task.category = submitted.category
                    /\ task.context_based_notes = << >>
                    /\ task.description = submitted.description

\* a task submitted with a description of 49 characters and AI enhancement is
\* saved with the enhanced description and the submitted one as original
C21_Witness ==
    /\ Created
    /\ op.validated_data.use_ai_enhancement
    /\ Len(op.validated_data.description) = 49
    /\ ret.value.description = frame.analysis.enhanced_description
    /\ ret.value.description # op.validated_data.description
    /\ ret.value.original_description = op.validated_data.description
    /\ ret.value.context_based_notes # << >>

\* an analysis of get_comprehensive_task_analysis has returned
AnalysisReturned == pc = "done" /\ frame.active /\ frame.step \in 1..5

\* every call of the gateway made for the analysis ended in a failure
Unavailable == \A k \in 1..Len(attempts) : attempts[k].outcome = "failed"

\* what the operation makes of a text the gateway returned, its except clause
\* not being entered
FromText(operation, text) ==
    LET t == operation.title
        d == operation.description
    IN  CASE operation.name = "analyze_task_priority" ->
                analyze_task_priority(t, d, Returned(text))
          [] operation.name = "suggest_deadline" -> suggest_deadline(d, Returned(text))
          [] operation.name = "suggest_category" -> suggest_category(t, d, Returned(text))
          [] operation.name = "suggest_tags" -> suggest_tags(t, d, Returned(text))
          [] operation.name = "enhance_task_description" ->
                enhance_task_description(t, d, Returned(text))

C23_CompletedAtKept ==
    [][\A pk \in 1..Len(db.tasks) :
          /\ db'.tasks[pk].status = "COMPLETED" => db'.tasks[pk].completed_at # << >>
          /\ db.tasks[pk].completed_at # << >>
                => db'.tasks[pk].completed_at = db.tasks[pk].completed_at]_vars

\* a task completed on an earlier day has been saved with another status and
\* still has the completed_at of that day
C23_Witness ==
    /\ op.name = "save"
    /\ op.status = "CANCELLED"
    /\ db.tasks[op.pk].status = "CANCELLED"
    /\ db.tasks[op.pk].completed_at = <<2026, 11, 2>>
    /\ now = <<2026, 11, 4>>
=============================================================================
